---- MODULE Spec2Model ----
(***************************************************************************)
(* Go-Back-N transport of emiliovillar/ComputerNetworkChatroom             *)
(* (src/transport.py): two TransportConnection endpoints, the initiator    *)
(* "c" (is_server = False) and the responder "s" (is_server = True), as    *)
(* src/test_transport.py and src/test_lossy.py construct them, joined by   *)
(* an unreliable datagram substrate.                                       *)
(*                                                                         *)
(* Threads.  Every endpoint has an application thread (connect, send_msg,  *)
(* close), a receiver thread (_recv_loop) and the threads of its           *)
(* threading.Timer objects (_timeout).  The bodies of send_msg, _timeout   *)
(* and of the ACK processing hold self.lock throughout, so each is one     *)
(* action; a Timer that has expired and whose thread has not yet acquired  *)
(* the lock is counted in `fired`.                                         *)
(*                                                                         *)
(* Substrate.  chan[e] is the set of datagrams that were put on the wire   *)
(* towards e.  A datagram stays in the set after it was received, so one   *)
(* datagram can be received any number of times and in any order           *)
(* (duplication, reordering); a datagram that is never received is lost.   *)
(* The loss injector (_sendto / maybe_drop_packet) can moreover keep a     *)
(* datagram off the wire.                                                  *)
(*                                                                         *)
(* Time is abstracted: a pending timer may expire at any moment, the 5 s   *)
(* deadline of connect() may elapse at any moment, and an RTT sample is    *)
(* recorded as the sequence number it was taken for.                       *)
(*                                                                         *)
(* The chat service.  src/server.py is modelled by its tables and its two  *)
(* threads (receive_loop, process_message_queue), src/client.py by the     *)
(* send_msg calls its main makes on the initiator "c".                     *)
(***************************************************************************)
EXTENDS Integers, Sequences, FiniteSets, TLC

\* ------------------------------------------------------------------------
\* Bounds of the model
\* ------------------------------------------------------------------------
\* send_msg calls the initiator's application makes (loss profile "clean")
MaxClientCalls == 6
\* send_msg calls the responder's application makes (loss profile "clean")
MaxServerCalls == 2
\* send_msg calls either application makes while the loss injector drops
\* (loss profiles "random" and "bursty")
MaxLossyCalls == 1
\* expired Timer threads of one endpoint that wait for the sender lock
MaxFired == 1
\* connect() draws conn_id from 1..MaxConnId (the source: 1..65535)
MaxConnId == 1
\* send_msg calls the initiator's and the responder's application make in
\* the runs that log the socket calls of every step (loss profile "clean")
MaxLoggedClientCalls == 3
MaxLoggedServerCalls == 1
\* retransmissions an endpoint makes in the runs that count them
MaxRetransmissions == 2

\* ------------------------------------------------------------------------
\* Program constants
\* ------------------------------------------------------------------------
SYN == 2
ACK == 16
FIN == 1
WINDOW_SIZE == 5
RECV_BUFFER_SIZE == 10

E == {"c", "s"}
Peer(e) == IF e = "c" THEN "s" ELSE "c"
is_server(e) == e = "s"
LossProfiles == {"clean", "random", "bursty"}
ConnIds == 1..MaxConnId

VARIABLES
    LOSS_PROFILE,      \* transport.LOSS_PROFILE
    chan,              \* chan[e]: datagrams on the wire towards e
    \* sender-side state (guarded by self.lock)
    send_base, next_seq_num, unacked_packets, timer, fired, peer_recv_win,
    \* receiver-side state
    expected_seq_num, recv_win,
    \* connection and control
    conn_id, connected, running, remote_addr, sock_open,
    \* metrics
    bytes_sent, messages_sent, bytes_delivered, messages_delivered, rtt_samples,
    retransmissions, bytes_resent,
    \* application side
    connState,         \* where the initiator's connect() call is
    calls,             \* send_msg calls made so far
    admitted,          \* history: payloads admitted by send_msg, by seq
    delivered,         \* history: the on_message invocations, in order
    final_ack_rcvd,    \* history: the responder's receiver got the handshake's final ACK
    step,              \* log: what the last step received and passed to _sendto
    \* one conversion of a TransportPacket to bytes and back
    codec_pc,          \* how far the conversion has got
    codec_obj,         \* the TransportPacket object that is packed
    codec_packed,      \* the bytes pack() returned
    codec_data,        \* the bytes handed to unpack()
    codec_result,      \* the packet unpack() returned, or the ValueError it raised
    \* the loss injector (module globals of transport.py) and its callers
    burst_active,      \* _burst_active
    burst_remaining,   \* _burst_remaining
    drop_pc,           \* where each calling thread is inside maybe_drop_packet
    drop_r,            \* the r each calling thread drew, in hundredths
    drop_loaded,       \* the _burst_remaining each thread read for "-= 1"
    drop_result,       \* what the call that returned last returned
    drop_calls,        \* calls of maybe_drop_packet made so far
    burst_len,         \* history: the length the last burst was armed with
    burst_calls,       \* history: calls evaluated as in-burst since the last burst began
    \* the threads of an endpoint, statement by statement
    lock,              \* self.lock: the thread that holds it, or "None"
    at,                \* at[e][t]: the line of transport.py thread t of e is at
    lk_ready,          \* the handshake has given the endpoint its peer
    lk_timer,          \* a threading.Timer of the endpoint is pending
    lk_open,           \* the application has not called close()
    metrics_lock,      \* self.metrics_lock: the thread that holds it, or "None"
    \* the chat server (module globals of server.py)
    clients,           \* conn_id -> ClientConnection
    addr_to_conn_id,   \* (ip, port) -> conn_id
    client_names,      \* conn_id -> display name
    username_to_conn_id, \* username -> conn_id
    logged_in_users,   \* conn_ids that have logged in
    rooms,             \* room name -> set of conn_ids
    room_history,      \* room name -> the last messages of the room
    priority_queue,    \* the queued broadcasts, oldest first
    \* the two threads of the chat server inside ClientConnection.send_msg
    sm_at,             \* sm_at[t]: the line of server.py thread t is at
    sm_pkt,            \* sm_pkt[t]: the packet thread t has built
    sm_loaded,         \* sm_loaded[t]: the send_seq thread t read for "+= 1"
    sm_calls,          \* sm_calls[t]: send_msg calls thread t has completed
    sm_sent            \* the datagrams passed to server_sock.sendto, in order

\* the value of `step` in the runs that keep no log of the socket calls
NoLog == [actor |-> "-", op |-> "off", rx |-> << >>, tx |-> << >>, cb |-> << >>]

MaxCalls(e) ==
    IF LOSS_PROFILE # "clean" THEN MaxLossyCalls
    ELSE IF step # NoLog
         THEN (IF e = "c" THEN MaxLoggedClientCalls ELSE MaxLoggedServerCalls)
         ELSE (IF e = "c" THEN MaxClientCalls ELSE MaxServerCalls)

chanVars   == <<chan>>
senderVars == <<send_base, next_seq_num, unacked_packets, timer, fired, peer_recv_win>>
recvVars   == <<expected_seq_num, recv_win>>
ctlVars    == <<conn_id, connected, running, remote_addr, sock_open>>
sentMetrics == <<bytes_sent, messages_sent>>
dlvMetrics == <<bytes_delivered, messages_delivered>>
resentMetrics == <<retransmissions, bytes_resent>>
appVars    == <<connState, calls, admitted>>

codecVars  == <<codec_pc, codec_obj, codec_packed, codec_data, codec_result>>

lossVars == <<burst_active, burst_remaining, drop_pc, drop_r, drop_loaded, drop_result,
              drop_calls, burst_len, burst_calls>>

lockVars == <<lock, at, lk_ready, lk_timer, lk_open>>

chatVars == <<clients, addr_to_conn_id, client_names, username_to_conn_id,
              logged_in_users, rooms, room_history, priority_queue>>

sendVars == <<sm_at, sm_pkt, sm_loaded, sm_calls, sm_sent>>

mutexVars == <<metrics_lock>>

\* what the actions of the connection leave alone
otherVars == <<codecVars, lossVars, lockVars, chatVars, sendVars, mutexVars>>

\* what the conversions of a packet leave alone, besides the connection
nonCodecVars == <<lossVars, lockVars, chatVars, sendVars, mutexVars>>

\* what the calls of the loss injector leave alone, besides the connection
nonLossVars == <<codecVars, lockVars, chatVars, sendVars, mutexVars>>

\* what the statements of the threads leave alone, besides the connection
nonLockVars == <<codecVars, lossVars, chatVars, sendVars, mutexVars>>

\* what the chat server leaves alone, besides the connection
nonChatVars == <<codecVars, lossVars, lockVars, sendVars, mutexVars>>

connVars == <<LOSS_PROFILE, chan, send_base, next_seq_num, unacked_packets, timer, fired,
              peer_recv_win, expected_seq_num, recv_win, conn_id, connected, running,
              remote_addr, sock_open, bytes_sent, messages_sent, bytes_delivered,
              messages_delivered, rtt_samples, retransmissions, bytes_resent, connState,
              calls, admitted, delivered, final_ack_rcvd, step>>

\* what the statements that take the two locks leave alone
nonMutexVars == <<connVars, codecVars, lossVars, chatVars, sendVars, lk_ready>>

vars == <<connVars, codecVars, lossVars, lockVars, chatVars, sendVars, mutexVars>>

\* ------------------------------------------------------------------------
\* TransportPacket
\* ------------------------------------------------------------------------
\* TransportPacket(...) with the constructor's defaults for what is not given
TransportPacket(flags, cid, seq, ack, rwin, payload) ==
    [flags |-> flags, conn_id |-> cid, seq |-> seq, ack |-> ack,
     recv_win |-> rwin, payload |-> payload]

\* pkt.flags & bit, for a single-bit mask
HasFlag(flags, bit) == (flags \div bit) % 2 = 1

Min(a, b) == IF a < b THEN a ELSE b

\* What one step of a thread of endpoint `actor` did at the socket: rx is the
\* datagram recvfrom returned (<< >> if the step received nothing), tx the
\* packets it passed to _sendto, in the order of the calls, cb the payloads
\* it called on_message with.  The log is kept in the runs that start with
\* one (IoSpec).
Did(actor, op, rx, tx, cb) ==
    IF step = NoLog THEN NoLog
    ELSE [actor |-> actor, op |-> op, rx |-> rx, tx |-> tx, cb |-> cb]

\* ------------------------------------------------------------------------
\* Loss injector
\* ------------------------------------------------------------------------
\* the values maybe_drop_packet() can return: never True on "clean"; on
\* "random" and "bursty" the draw r decides, and either value can come out
DropChoices == IF LOSS_PROFILE = "clean" THEN {FALSE} ELSE BOOLEAN

\* _sendto(data, addr): the wire after the call
sendto(ch, dst, pkt, drop) ==
    IF drop THEN ch ELSE [ch EXCEPT ![dst] = @ \cup {pkt}]

\* ------------------------------------------------------------------------
\* Initial state: both endpoints constructed, nothing sent
\* ------------------------------------------------------------------------
InitEndpoints ==
    /\ chan = [e \in E |-> {}]
    /\ send_base = [e \in E |-> 0]
    /\ next_seq_num = [e \in E |-> 0]
    /\ unacked_packets = [e \in E |-> << >>]
    /\ timer = [e \in E |-> "None"]
    /\ fired = [e \in E |-> 0]
    /\ peer_recv_win = [e \in E |-> WINDOW_SIZE]
    /\ expected_seq_num = [e \in E |-> 0]
    /\ recv_win = [e \in E |-> RECV_BUFFER_SIZE]
    /\ conn_id = [e \in E |-> 0]
    /\ connected = [e \in E |-> FALSE]
    /\ running = [e \in E |-> TRUE]
    /\ remote_addr = [e \in E |-> IF e = "c" THEN "s" ELSE "None"]
    /\ sock_open = [e \in E |-> TRUE]
    /\ bytes_sent = [e \in E |-> 0]
    /\ messages_sent = [e \in E |-> 0]
    /\ bytes_delivered = [e \in E |-> 0]
    /\ messages_delivered = [e \in E |-> 0]
    /\ rtt_samples = [e \in E |-> << >>]
    /\ connState = "idle"
    /\ calls = [e \in E |-> 0]
    /\ admitted = [e \in E |-> << >>]
    /\ delivered = [e \in E |-> << >>]
    /\ final_ack_rcvd = FALSE

\* the value of metrics["retransmissions"] and metrics["bytes_resent"] in the
\* runs that do not count the retransmissions
NotCounted == [e \in E |-> -1]

ResendsNotCounted ==
    /\ retransmissions = NotCounted
    /\ bytes_resent = NotCounted

\* no packet is being converted
CodecIdle ==
    /\ codec_pc = "idle"
    /\ codec_obj = << >>
    /\ codec_packed = << >>
    /\ codec_data = << >>
    /\ codec_result = << >>

\* the threads that call maybe_drop_packet: two of the threads of a process
\* that pass packets to _sendto (the receiver thread sends its ACKs outside
\* self.lock, and every connection has a lock of its own)
Callers == {"t1", "t2"}

\* the module globals as loaded, no call of maybe_drop_packet under way
InjectorIdle ==
    /\ burst_active = FALSE
    /\ burst_remaining = 0
    /\ drop_pc = [t \in Callers |-> "idle"]
    /\ drop_r = [t \in Callers |-> 0]
    /\ drop_loaded = [t \in Callers |-> 0]
    /\ drop_result = FALSE
    /\ drop_calls = 0
    /\ burst_len = 0
    /\ burst_calls = 0

\* the threads of an endpoint: two threads of the application, the receiver
\* (_recv_loop) and the thread of an expired threading.Timer (_timeout)
Threads == {"app", "app2", "recv", "timer"}

\* no thread is inside a method that touches the sender state
LockIdle ==
    /\ lock = [e \in E |-> "None"]
    /\ at = [e \in E |-> [t \in Threads |-> "idle"]]
    /\ lk_ready = [e \in E |-> FALSE]
    /\ lk_timer = [e \in E |-> FALSE]
    /\ lk_open = [e \in E |-> TRUE]

\* the module globals of server.py at import
ChatIdle ==
    /\ clients = << >>
    /\ addr_to_conn_id = << >>
    /\ client_names = << >>
    /\ username_to_conn_id = << >>
    /\ logged_in_users = {}
    /\ rooms = << >>
    /\ room_history = << >>
    /\ priority_queue = << >>

\* the threads of server.py that call ClientConnection.send_msg: the thread
\* of receive_loop (replies, history, DMs) and the thread of
\* process_message_queue (broadcasts)
ServerThreads == {"receive_loop", "process_message_queue"}

\* no thread of the chat server is inside send_msg
SendIdle ==
    /\ sm_at = [t \in ServerThreads |-> "idle"]
    /\ sm_pkt = [t \in ServerThreads |-> << >>]
    /\ sm_loaded = [t \in ServerThreads |-> 0]
    /\ sm_calls = [t \in ServerThreads |-> 0]
    /\ sm_sent = << >>

\* no thread holds the metrics lock
MutexIdle == metrics_lock = [e \in E |-> "None"]

\* everything but the connection and the codec is idle
NonCodecIdle ==
    /\ InjectorIdle
    /\ LockIdle
    /\ ChatIdle
    /\ SendIdle
    /\ MutexIdle

\* everything but the connection is idle
OthersIdle ==
    /\ CodecIdle
    /\ NonCodecIdle

Init ==
    /\ LOSS_PROFILE \in LossProfiles
    /\ InitEndpoints
    /\ ResendsNotCounted
    /\ step = NoLog
    /\ OthersIdle

\* ------------------------------------------------------------------------
\* Connection management
\* ------------------------------------------------------------------------
\* mutant of ClampWin: an advertised 0 is stored as it is
ClampWin_AsAdvertised(w) == w

\* pkt.recv_win if pkt.recv_win > 0 else 1
ClampWin(w) == IF w > 0 THEN w ELSE 1

\* connect(), first part: choose conn_id, send the SYN, start waiting
ConnectStart ==
    /\ connState = "idle"
    /\ sock_open["c"]
    /\ \E id \in ConnIds, drop \in DropChoices :
        LET syn_pkt == TransportPacket(SYN, id, 0, 0, recv_win["c"], << >>)
        IN  /\ conn_id' = [conn_id EXCEPT !["c"] = id]
            /\ chan' = sendto(chan, remote_addr["c"], syn_pkt, drop)
            /\ step' = Did("c", "connect", << >>, <<syn_pkt>>, << >>)
    /\ connState' = "waiting"
    /\ UNCHANGED <<final_ack_rcvd, LOSS_PROFILE, otherVars, resentMetrics, senderVars, recvVars, connected, running, remote_addr,
                   sock_open, sentMetrics, dlvMetrics, rtt_samples, calls, admitted,
                   delivered>>

\* connect(), the wait loop left because self.connected became True
ConnectReturn ==
    /\ connState = "waiting"
    /\ connected["c"]
    /\ connState' = "ok"
    /\ step' = Did("c", "connect_return", << >>, << >>, << >>)
    /\ UNCHANGED <<final_ack_rcvd, LOSS_PROFILE, otherVars, resentMetrics, chanVars, senderVars, recvVars, ctlVars, sentMetrics,
                   dlvMetrics, rtt_samples, calls, admitted, delivered>>

\* connect(), the 5 s deadline passed with self.connected still False
ConnectTimeout ==
    /\ connState = "waiting"
    /\ ~connected["c"]
    /\ connState' = "timeout"
    /\ step' = Did("c", "connect_timeout", << >>, << >>, << >>)
    /\ UNCHANGED <<final_ack_rcvd, LOSS_PROFILE, otherVars, resentMetrics, chanVars, senderVars, recvVars, ctlVars, sentMetrics,
                   dlvMetrics, rtt_samples, calls, admitted, delivered>>

\* ------------------------------------------------------------------------
\* Sending
\* ------------------------------------------------------------------------
\* mutant of effective_window: window_size is left out of the minimum
effective_window_PeerOnly(e) == peer_recv_win[e]

\* min(self.window_size, self.peer_recv_win); window_size is WINDOW_SIZE
effective_window(e) == Min(WINDOW_SIZE, peer_recv_win[e])

\* mutant of WindowOpen: the admission test is off by one
WindowOpen_OffByOne(e) == next_seq_num[e] <= send_base[e] + effective_window(e)

\* the admission test of send_msg
WindowOpen(e) == next_seq_num[e] < send_base[e] + effective_window(e)

\* _start_timer(): a running timer is cancelled, a new one is started
start_timer(t) == "pending"

\* The application calls send_msg once the handshake has given it a peer:
\* the initiator after connect() returned, the responder once a SYN has
\* told it the remote address; never after its own close().
AppMaySend(e) ==
    /\ sock_open[e]
    /\ calls[e] < MaxCalls(e)
    /\ IF is_server(e) THEN remote_addr[e] # "None" ELSE connState = "ok"

\* send_msg(data)
SendMsg(e, data) ==
    /\ AppMaySend(e)
    /\ calls' = [calls EXCEPT ![e] = @ + 1]
    /\ LET pkt == TransportPacket(0, conn_id[e], next_seq_num[e], 0, recv_win[e], data)
       IN  IF WindowOpen(e)
           THEN /\ bytes_sent' = [bytes_sent EXCEPT ![e] = @ + Len(data)]
                /\ messages_sent' = [messages_sent EXCEPT ![e] = @ + 1]
                /\ \E drop \in DropChoices :
                       chan' = sendto(chan, remote_addr[e], pkt, drop)
                /\ unacked_packets' = [unacked_packets EXCEPT
                       ![e] = (next_seq_num[e] :> pkt) @@ @]
                /\ timer' = [timer EXCEPT ![e] =
                       IF send_base[e] = next_seq_num[e] THEN start_timer(@) ELSE @]
                /\ next_seq_num' = [next_seq_num EXCEPT ![e] = @ + 1]
                /\ admitted' = [admitted EXCEPT ![e] = Append(@, data)]
                /\ step' = Did(e, "send_msg", << >>, <<pkt>>, << >>)
           ELSE /\ UNCHANGED <<bytes_sent, messages_sent, chan, unacked_packets, timer,
                               next_seq_num, admitted>>
                /\ step' = Did(e, "send_msg", << >>, << >>, << >>)
    /\ UNCHANGED <<final_ack_rcvd, LOSS_PROFILE, otherVars, resentMetrics, send_base, fired, peer_recv_win, recvVars, ctlVars,
                   dlvMetrics, rtt_samples, connState, delivered>>

\* the k-th send_msg call of an endpoint of the test programs carries the
\* payload <<k>>
send_msg(e) == SendMsg(e, <<calls[e] + 1>>)

\* the threading.Timer of an endpoint expires: its thread is about to run
\* _timeout and cancel() no longer stops it
TimerFire(e) ==
    /\ timer[e] = "pending"
    /\ fired[e] < MaxFired
    /\ timer' = [timer EXCEPT ![e] = "dead"]
    /\ fired' = [fired EXCEPT ![e] = @ + 1]
    /\ step' = Did(e, "timer_expires", << >>, << >>, << >>)
    /\ UNCHANGED <<final_ack_rcvd, LOSS_PROFILE, otherVars, resentMetrics, chanVars, send_base, next_seq_num, unacked_packets,
                   peer_recv_win, recvVars, ctlVars, sentMetrics, dlvMetrics, rtt_samples,
                   appVars, delivered>>

\* the sequence numbers _timeout retransmits
Outstanding(e) ==
    {s \in send_base[e]..(next_seq_num[e] - 1) : s \in DOMAIN unacked_packets[e]}

\* the packets _timeout passes to _sendto, in ascending order of sequence
\* number; on a closed socket the loop ends with the first packet that the
\* loss injector lets through, because sock.sendto raises
RECURSIVE Resent(_, _, _, _)
Resent(e, lo, hi, dropped) ==
    IF lo > hi THEN << >>
    ELSE IF lo \notin DOMAIN unacked_packets[e] THEN Resent(e, lo + 1, hi, dropped)
    ELSE <<unacked_packets[e][lo]>> \o
             (IF ~sock_open[e] /\ lo \notin dropped THEN << >>
              ELSE Resent(e, lo + 1, hi, dropped))

\* the packets whose _sendto call returned, so that the two counters were
\* incremented for them: all of Resent on an open socket, on a closed one
\* those before the packet whose sendto raises
RECURSIVE Counted(_, _, _, _)
Counted(e, lo, hi, dropped) ==
    IF lo > hi THEN << >>
    ELSE IF lo \notin DOMAIN unacked_packets[e] THEN Counted(e, lo + 1, hi, dropped)
    ELSE IF ~sock_open[e] /\ lo \notin dropped THEN << >>
    ELSE <<unacked_packets[e][lo]>> \o Counted(e, lo + 1, hi, dropped)

\* sum of len(pkt.payload) over a sequence of packets
RECURSIVE PayloadBytes(_)
PayloadBytes(pkts) ==
    IF pkts = << >> THEN 0 ELSE Len(pkts[1].payload) + PayloadBytes(Tail(pkts))

\* metrics[...] += n, in the runs that count the retransmissions
Add(counter, e, n) ==
    IF counter = NotCounted THEN counter ELSE [counter EXCEPT ![e] = @ + n]

\* _timeout() when the loss injector drops the retransmissions of `dropped`:
\* resend the window, restart the timer.  On a socket that close() has
\* closed, the first sendto the injector lets through raises.
Retransmit(e, dropped) ==
    /\ fired[e] > 0
    /\ fired' = [fired EXCEPT ![e] = @ - 1]
    /\ dropped \subseteq Outstanding(e)
    /\ dropped # {} => TRUE \in DropChoices
    /\ step' = Did(e, "timeout", << >>,
                   Resent(e, send_base[e], next_seq_num[e] - 1, dropped), << >>)
    /\ LET counted == Counted(e, send_base[e], next_seq_num[e] - 1, dropped)
       IN  /\ retransmissions = NotCounted
                \/ retransmissions[e] + Len(counted) <= MaxRetransmissions
           /\ retransmissions' = Add(retransmissions, e, Len(counted))
           /\ bytes_resent' = Add(bytes_resent, e, PayloadBytes(counted))
    /\ LET sent == Outstanding(e) \ dropped
       IN  IF sock_open[e]
           THEN /\ chan' = IF sent = {} THEN chan
                           ELSE [chan EXCEPT ![remote_addr[e]] =
                                    @ \cup {unacked_packets[e][s] : s \in sent}]
                /\ timer' = [timer EXCEPT ![e] = start_timer(@)]
           ELSE /\ chan' = chan
                /\ timer' = [timer EXCEPT ![e] =
                                IF sent = {} THEN start_timer(@) ELSE @]
    /\ UNCHANGED <<final_ack_rcvd, LOSS_PROFILE, otherVars, send_base, next_seq_num, unacked_packets,
                   peer_recv_win, recvVars, ctlVars, sentMetrics, dlvMetrics, rtt_samples,
                   appVars, delivered>>

\* _timeout(), run by the thread of an expired Timer
timeout(e) == \E dropped \in SUBSET Outstanding(e) : Retransmit(e, dropped)

\* ------------------------------------------------------------------------
\* Receiving
\* ------------------------------------------------------------------------
\* one turn of the while loop of _recv_loop: recvfrom returns pkt
CanRecv(e, pkt) ==
    /\ running[e]
    /\ sock_open[e]
    /\ pkt \in chan[e]

\* _handle_handshake(pkt, addr)
handle_handshake(e, pkt, addr) ==
    IF HasFlag(pkt.flags, SYN) /\ ~HasFlag(pkt.flags, ACK)
    THEN /\ conn_id' = [conn_id EXCEPT ![e] = pkt.conn_id]
         /\ remote_addr' = [remote_addr EXCEPT ![e] = IF @ = "None" THEN addr ELSE @]
         /\ peer_recv_win' = [peer_recv_win EXCEPT ![e] = ClampWin(pkt.recv_win)]
         /\ LET syn_ack_pkt == TransportPacket(SYN + ACK, pkt.conn_id, 0, pkt.seq + 1,
                                               recv_win[e], << >>)
            IN  /\ \E drop \in DropChoices : chan' = sendto(chan, addr, syn_ack_pkt, drop)
                /\ step' = Did(e, "recv_syn", <<pkt>>, <<syn_ack_pkt>>, << >>)
         /\ UNCHANGED connected
    ELSE IF HasFlag(pkt.flags, ACK) /\ ~HasFlag(pkt.flags, SYN) /\ pkt.conn_id = conn_id[e]
    THEN /\ peer_recv_win' = [peer_recv_win EXCEPT ![e] = ClampWin(pkt.recv_win)]
         /\ connected' = [connected EXCEPT ![e] = TRUE]
         /\ step' = Did(e, "recv_syn", <<pkt>>, << >>, << >>)
         /\ UNCHANGED <<conn_id, remote_addr, chan>>
    ELSE /\ step' = Did(e, "recv_syn", <<pkt>>, << >>, << >>)
         /\ UNCHANGED <<conn_id, remote_addr, peer_recv_win, chan, connected>>

\* the initiator's test on a packet that carries SYN
IsAwaitedSynAck(e, pkt) ==
    HasFlag(pkt.flags, ACK) /\ pkt.conn_id = conn_id[e] /\ ~connected[e]

\* _recv_loop, "if pkt.flags & SYN": the handshake branch
RecvSyn(e, pkt) ==
    /\ CanRecv(e, pkt)
    /\ HasFlag(pkt.flags, SYN)
    /\ IF is_server(e)
       THEN handle_handshake(e, pkt, Peer(e))
       ELSE IF IsAwaitedSynAck(e, pkt)
            THEN /\ peer_recv_win' = [peer_recv_win EXCEPT ![e] = ClampWin(pkt.recv_win)]
                 /\ LET ack_pkt == TransportPacket(ACK, conn_id[e], 1, pkt.seq + 1,
                                                   recv_win[e], << >>)
                    IN  /\ \E drop \in DropChoices :
                               chan' = sendto(chan, Peer(e), ack_pkt, drop)
                        /\ step' = Did(e, "recv_syn", <<pkt>>, <<ack_pkt>>, << >>)
                 /\ connected' = [connected EXCEPT ![e] = TRUE]
                 /\ UNCHANGED <<conn_id, remote_addr>>
            ELSE /\ step' = Did(e, "recv_syn", <<pkt>>, << >>, << >>)
                 /\ UNCHANGED <<conn_id, remote_addr, peer_recv_win, chan, connected>>
    /\ UNCHANGED <<final_ack_rcvd, LOSS_PROFILE, otherVars, resentMetrics, send_base, next_seq_num, unacked_packets, timer, fired,
                   recvVars, running, sock_open, sentMetrics, dlvMetrics, rtt_samples,
                   appVars, delivered>>

\* _recv_loop, "if pkt.flags & FIN": the remote side is closing
RecvFin(e, pkt) ==
    /\ CanRecv(e, pkt)
    /\ ~HasFlag(pkt.flags, SYN)
    /\ HasFlag(pkt.flags, FIN)
    /\ running' = [running EXCEPT ![e] = FALSE]
    /\ step' = Did(e, "recv_fin", <<pkt>>, << >>, << >>)
    /\ UNCHANGED <<final_ack_rcvd, LOSS_PROFILE, otherVars, resentMetrics, chanVars, senderVars, recvVars, conn_id, connected,
                   remote_addr, sock_open, sentMetrics, dlvMetrics, rtt_samples, appVars,
                   delivered>>

\* the packet passes the SYN and FIN branches
PastControl(e, pkt) ==
    /\ CanRecv(e, pkt)
    /\ ~HasFlag(pkt.flags, SYN)
    /\ ~HasFlag(pkt.flags, FIN)

\* "if not self.connected and not self.is_server: continue"
IgnoredBeforeHandshake(e) == ~connected[e] /\ ~is_server(e)

RecvIgnored(e, pkt) ==
    /\ PastControl(e, pkt)
    /\ IgnoredBeforeHandshake(e)
    /\ step' = Did(e, "recv_ignored", <<pkt>>, << >>, << >>)
    /\ UNCHANGED <<final_ack_rcvd, LOSS_PROFILE, otherVars, resentMetrics, chanVars, senderVars, recvVars, ctlVars,
                   sentMetrics, dlvMetrics, rtt_samples, appVars, delivered>>

\* mutant of InOrder: the packet delivered last is accepted once more
InOrder_OrLast(e, pkt) ==
    pkt.seq = expected_seq_num[e] \/ pkt.seq = expected_seq_num[e] - 1

\* mutant of InOrder: a packet ahead of the expected one is accepted too
InOrder_OrAhead(e, pkt) == pkt.seq >= expected_seq_num[e]

\* "if pkt.seq == self.expected_seq_num"
InOrder(e, pkt) == pkt.seq = expected_seq_num[e]

\* "if pkt.ack > self.send_base"
AckAdvances(e, pkt) == pkt.ack > send_base[e]

\* the sequence numbers the loop over range(self.send_base, pkt.ack) visits
AckedRange(e, pkt) == send_base[e]..(pkt.ack - 1)

\* the samples appended for the packets the loop pops, in ascending order
RECURSIVE SamplesOf(_, _, _)
SamplesOf(lo, hi, present) ==
    IF lo > hi THEN << >>
    ELSE (IF lo \in present THEN <<lo>> ELSE << >>) \o SamplesOf(lo + 1, hi, present)

\* _recv_loop, "ACK processing (advance window)"
AckProcessing(e, pkt) ==
    IF AckAdvances(e, pkt)
    THEN LET popped == AckedRange(e, pkt) \cap DOMAIN unacked_packets[e]
         IN  /\ peer_recv_win' = [peer_recv_win EXCEPT ![e] = ClampWin(pkt.recv_win)]
             /\ unacked_packets' = [unacked_packets EXCEPT
                    ![e] = [s \in (DOMAIN @) \ popped |-> @[s]]]
             /\ rtt_samples' = [rtt_samples EXCEPT
                    ![e] = @ \o SamplesOf(send_base[e], pkt.ack - 1, popped)]
             /\ send_base' = [send_base EXCEPT ![e] = pkt.ack]
             /\ timer' = [timer EXCEPT ![e] =
                    IF pkt.ack = next_seq_num[e] THEN "None" ELSE start_timer(@)]
    ELSE UNCHANGED <<peer_recv_win, unacked_packets, rtt_samples, send_base, timer>>

\* mutant of ack_number: the ACK acknowledges the packet just received
ack_number_OfPacket(e, pkt) == pkt.seq + 1

\* "ack=self.expected_seq_num" of the ACK that answers a data packet: the
\* value after the delivery, if there was one
ack_number(e, pkt) == expected_seq_num'[e]

\* _recv_loop, "if pkt.payload": deliver in order, always answer with an ACK
RecvData(e, pkt) ==
    /\ PastControl(e, pkt)
    /\ ~IgnoredBeforeHandshake(e)
    /\ pkt.payload # << >>
    /\ IF InOrder(e, pkt)
       THEN /\ delivered' = [delivered EXCEPT
                   ![e] = Append(@, [seq |-> pkt.seq, payload |-> pkt.payload])]
            /\ expected_seq_num' = [expected_seq_num EXCEPT ![e] = @ + 1]
            /\ recv_win' = [recv_win EXCEPT ![e] = RECV_BUFFER_SIZE]
            /\ bytes_delivered' = [bytes_delivered EXCEPT ![e] = @ + Len(pkt.payload)]
            /\ messages_delivered' = [messages_delivered EXCEPT ![e] = @ + 1]
       ELSE UNCHANGED <<delivered, expected_seq_num, recv_win, bytes_delivered,
                        messages_delivered>>
    /\ LET ack_pkt == TransportPacket(ACK, conn_id[e], 0, ack_number(e, pkt),
                                      recv_win'[e], << >>)
       IN  /\ \E drop \in DropChoices :
                  chan' = sendto(chan,
                                 IF remote_addr[e] # "None" THEN remote_addr[e] ELSE Peer(e),
                                 ack_pkt, drop)
           /\ step' = Did(e, "recv_data", <<pkt>>, <<ack_pkt>>,
                          IF InOrder(e, pkt) THEN <<pkt.payload>> ELSE << >>)
    /\ AckProcessing(e, pkt)
    /\ UNCHANGED <<final_ack_rcvd, LOSS_PROFILE, otherVars, resentMetrics, next_seq_num, fired, ctlVars, sentMetrics, appVars>>

\* the ACK the initiator answers the SYN-ACK with: flags = ACK, seq = 1
IsFinalAck(pkt) == pkt.flags = ACK /\ pkt.seq = 1 /\ pkt.payload = << >>

\* _recv_loop on a packet without payload: only the ACK processing
RecvAck(e, pkt) ==
    /\ PastControl(e, pkt)
    /\ ~IgnoredBeforeHandshake(e)
    /\ pkt.payload = << >>
    /\ AckProcessing(e, pkt)
    /\ final_ack_rcvd' = (final_ack_rcvd \/ (is_server(e) /\ IsFinalAck(pkt)))
    /\ step' = Did(e, "recv_ack", <<pkt>>, << >>, << >>)
    /\ UNCHANGED <<LOSS_PROFILE, otherVars, resentMetrics, chanVars, next_seq_num, fired, recvVars, ctlVars,
                   sentMetrics, dlvMetrics, appVars, delivered>>

\* ------------------------------------------------------------------------
\* Closing
\* ------------------------------------------------------------------------
\* The application closes an endpoint once; the initiator's application is
\* inside connect() while that call waits.
AppMayClose(e) ==
    /\ sock_open[e]
    /\ is_server(e) \/ connState \in {"ok", "timeout"}

\* close()
close(e) ==
    /\ AppMayClose(e)
    /\ IF connected[e]
       THEN LET fin_pkt == TransportPacket(FIN, conn_id[e], next_seq_num[e], 0, 0, << >>)
            IN  /\ \E drop \in DropChoices :
                       chan' = sendto(chan, remote_addr[e], fin_pkt, drop)
                /\ step' = Did(e, "close", << >>, <<fin_pkt>>, << >>)
       ELSE /\ chan' = chan
            /\ step' = Did(e, "close", << >>, << >>, << >>)
    /\ running' = [running EXCEPT ![e] = FALSE]
    /\ connected' = [connected EXCEPT ![e] = FALSE]
    /\ timer' = [timer EXCEPT ![e] = IF @ = "None" THEN "None" ELSE "dead"]
    /\ sock_open' = [sock_open EXCEPT ![e] = FALSE]
    /\ UNCHANGED <<final_ack_rcvd, LOSS_PROFILE, otherVars, resentMetrics, send_base, next_seq_num, unacked_packets, fired,
                   peer_recv_win, recvVars, conn_id, remote_addr, sentMetrics, dlvMetrics,
                   rtt_samples, appVars, delivered>>

\* ------------------------------------------------------------------------
\* Specification
\* ------------------------------------------------------------------------
recv_syn == \E e \in E : \E pkt \in chan[e] : RecvSyn(e, pkt)
recv_fin == \E e \in E : \E pkt \in chan[e] : RecvFin(e, pkt)
recv_ignored == \E e \in E : \E pkt \in chan[e] : RecvIgnored(e, pkt)
recv_data == \E e \in E : \E pkt \in chan[e] : RecvData(e, pkt)
recv_ack == \E e \in E : \E pkt \in chan[e] : RecvAck(e, pkt)
app_send_msg == \E e \in E : send_msg(e)
timer_expires == \E e \in E : TimerFire(e)
timer_thread == \E e \in E : timeout(e)
app_close == \E e \in E : close(e)

\* every step but close()
NextOpen ==
    \/ ConnectStart
    \/ ConnectReturn
    \/ ConnectTimeout
    \/ app_send_msg
    \/ timer_expires
    \/ timer_thread
    \/ recv_syn
    \/ recv_ignored
    \/ recv_data
    \/ recv_ack

Next ==
    \/ NextOpen
    \/ recv_fin
    \/ app_close

Spec == Init /\ [][Next]_vars

\* The same program with the log of the socket calls kept.
InitIo ==
    /\ LOSS_PROFILE \in LossProfiles
    /\ InitEndpoints
    /\ ResendsNotCounted
    /\ step = [actor |-> "-", op |-> "init", rx |-> << >>, tx |-> << >>, cb |-> << >>]
    /\ OthersIdle

IoSpec == InitIo /\ [][Next]_vars

\* A host that is no party to the connection sends one datagram to the
\* responder's socket (the socket is not connected, recvfrom takes datagrams
\* from every address): a data packet, an ACK or a FIN under a conn_id that
\* no connect() has chosen.
StrayConnId == MaxConnId + 1

StrayPackets ==
    {TransportPacket(0, StrayConnId, 0, 0, RECV_BUFFER_SIZE, <<0>>),
     TransportPacket(ACK, StrayConnId, 0, 1, RECV_BUFFER_SIZE, << >>),
     TransportPacket(FIN, StrayConnId, 0, 0, 0, << >>)}

stray_datagram ==
    /\ chan["s"] \cap StrayPackets = {}
    /\ \E pkt \in StrayPackets :
        /\ chan' = [chan EXCEPT !["s"] = @ \cup {pkt}]
        /\ step' = Did("x", "stray", << >>, <<pkt>>, << >>)
    /\ UNCHANGED <<final_ack_rcvd, LOSS_PROFILE, otherVars, resentMetrics, senderVars, recvVars, ctlVars,
                   sentMetrics, dlvMetrics, rtt_samples, appVars, delivered>>

StrayNext ==
    \/ Next
    \/ stray_datagram

InitStray ==
    /\ LOSS_PROFILE = "bursty"
    /\ InitEndpoints
    /\ ResendsNotCounted
    /\ step = [actor |-> "-", op |-> "init", rx |-> << >>, tx |-> << >>, cb |-> << >>]
    /\ OthersIdle

StraySpec == InitStray /\ [][StrayNext]_vars

\* A peer that advertises another credit than this repository's endpoints
\* do (they always advertise 10): a peer whose receive buffer has another
\* size or has filled up.  The sockets are not connected, so such a datagram
\* can come from any host that knows the conn_id.  One datagram of this kind
\* is put on the wire: towards the initiator an ACK that acknowledges nothing
\* new and advertises 3, an ACK of sequence 0 that advertises 0, or a SYN-ACK
\* that advertises 0; towards the responder a SYN that advertises 0.
CreditPackets(e) ==
    IF is_server(e)
    THEN {TransportPacket(SYN, id, 0, 0, 0, << >>) : id \in ConnIds}
    ELSE {TransportPacket(ACK, conn_id[e], 0, 0, 3, << >>),
          TransportPacket(ACK, conn_id[e], 0, 1, 0, << >>),
          TransportPacket(SYN + ACK, conn_id[e], 0, 0, 0, << >>)}

\* a packet whose credit is not the 10 that the endpoints advertise
ForeignCredit(pkt) == pkt.flags # FIN /\ pkt.recv_win # RECV_BUFFER_SIZE

credit_datagram ==
    /\ \A e \in E : \A pkt \in chan[e] : ~ForeignCredit(pkt)
    /\ \E e \in E : \E pkt \in CreditPackets(e) :
        /\ chan' = [chan EXCEPT ![e] = @ \cup {pkt}]
        /\ step' = Did("x", "credit", << >>, <<pkt>>, << >>)
    /\ UNCHANGED <<final_ack_rcvd, LOSS_PROFILE, otherVars, resentMetrics, senderVars, recvVars, ctlVars,
                   sentMetrics, dlvMetrics, rtt_samples, appVars, delivered>>

CreditNext ==
    \/ Next
    \/ credit_datagram

InitCredit ==
    /\ LOSS_PROFILE = "bursty"
    /\ InitEndpoints
    /\ ResendsNotCounted
    /\ step = [actor |-> "-", op |-> "init", rx |-> << >>, tx |-> << >>, cb |-> << >>]
    /\ OthersIdle

CreditSpec == InitCredit /\ [][CreditNext]_vars

\* The same program with the log kept and metrics["retransmissions"] and
\* metrics["bytes_resent"] counted from 0.
InitResend ==
    /\ LOSS_PROFILE = "clean"
    /\ InitEndpoints
    /\ retransmissions = [e \in E |-> 0]
    /\ bytes_resent = [e \in E |-> 0]
    /\ step = [actor |-> "-", op |-> "init", rx |-> << >>, tx |-> << >>, cb |-> << >>]
    /\ OthersIdle

ResendSpec == InitResend /\ [][Next]_vars

\* The lossy channel of a connection nobody closes.  Every thread that can
\* take a step eventually takes one (the receiver threads, the threads of
\* expired Timers, the waiting connect()); a pending timer eventually
\* expires; and of the retransmissions of a window that is retransmitted
\* again and again, one eventually reaches the wire whole.  A datagram on
\* the wire stays receivable, so it is eventually received.
InitLossy ==
    /\ LOSS_PROFILE \in {"random", "bursty"}
    /\ InitEndpoints
    /\ ResendsNotCounted
    /\ step = NoLog
    /\ OthersIdle

Fairness ==
    /\ WF_vars(ConnectReturn)
    /\ \A e \in E :
        /\ WF_vars(TimerFire(e))
        /\ WF_vars(timeout(e))
        /\ SF_vars(Retransmit(e, {}))
        /\ WF_vars(\E pkt \in chan[e] : RecvSyn(e, pkt))
        /\ WF_vars(\E pkt \in chan[e] : RecvData(e, pkt))
        /\ WF_vars(\E pkt \in chan[e] : RecvAck(e, pkt))

FairSpec == InitLossy /\ [][NextOpen]_vars /\ Fairness

\* ------------------------------------------------------------------------
\* TransportPacket: the wire format
\* ------------------------------------------------------------------------
\* struct.calcsize("!BBHIIHHI")
HEADER_LEN == 20

\* payload bytes of the packets that are converted
MaxPayloadLen == 2

\* mutant of BE: the least significant byte comes first
BE_LittleEndian(n, w) == [i \in 1..w |-> (n \div (256 ^ (i - 1))) % 256]

\* struct.pack of one unsigned field of w bytes in network byte order ("!")
BE(n, w) == [i \in 1..w |-> (n \div (256 ^ (w - i))) % 256]

\* struct.unpack of one unsigned field in network byte order
RECURSIVE FromBE(_)
FromBE(b) ==
    IF b = << >> THEN 0
    ELSE 256 * FromBE(SubSeq(b, 1, Len(b) - 1)) + b[Len(b)]

\* sum() of a bytes object
RECURSIVE SumBytes(_)
SumBytes(b) == IF b = << >> THEN 0 ELSE b[1] + SumBytes(Tail(b))

\* TransportPacket.__init__: self.len is len(self.payload), whatever `length`
\* was passed
NewTransportPacket(ver, flags, cid, seq, ack, rwin, length, checksum, payload) ==
    [ver |-> ver, flags |-> flags, conn_id |-> cid, seq |-> seq, ack |-> ack,
     recv_win |-> rwin, payload |-> payload, len |-> Len(payload),
     checksum |-> checksum]

\* struct.pack(HEADER_FORMAT, ver, flags, conn_id, seq, ack, recv_win, len, checksum)
Header(p, checksum) ==
    BE(p.ver, 1) \o BE(p.flags, 1) \o BE(p.conn_id, 2) \o BE(p.seq, 4) \o
    BE(p.ack, 4) \o BE(p.recv_win, 2) \o BE(p.len, 2) \o BE(checksum, 4)

\* compute_checksum(): sum(header + payload) % 2**32.  The sum of the at most
\* 20 + 65535 bytes of a packet is below 2**32, so the remainder is the sum.
compute_checksum(p) == SumBytes(Header(p, 0) \o p.payload)

\* the object after pack(): pack() stores self.len and self.checksum
Packed(p) ==
    LET q == [p EXCEPT !.len = Len(p.payload)]
    IN  [q EXCEPT !.checksum = compute_checksum(q)]

\* the bytes pack() returns
pack(p) == Header(Packed(p), Packed(p).checksum) \o Packed(p).payload

\* verify_checksum(...): a temporary packet is built from the fields and its
\* checksum compared
verify_checksum(ver, flags, cid, seq, ack, rwin, length, checksum, payload) ==
    compute_checksum(NewTransportPacket(ver, flags, cid, seq, ack, rwin, length, 0,
                                        payload)) = checksum

\* what unpack() raises
ValueError == [raised |-> "ValueError"]

\* unpack(data)
unpack(d) ==
    IF Len(d) < HEADER_LEN THEN ValueError
    ELSE LET ver      == FromBE(SubSeq(d, 1, 1))
             flags    == FromBE(SubSeq(d, 2, 2))
             cid      == FromBE(SubSeq(d, 3, 4))
             seq      == FromBE(SubSeq(d, 5, 8))
             ack      == FromBE(SubSeq(d, 9, 12))
             rwin     == FromBE(SubSeq(d, 13, 14))
             length   == FromBE(SubSeq(d, 15, 16))
             checksum == FromBE(SubSeq(d, 17, 20))
             payload  == SubSeq(d, HEADER_LEN + 1, Len(d))
         IN  IF ~verify_checksum(ver, flags, cid, seq, ack, rwin, length, checksum, payload)
             THEN ValueError
             ELSE NewTransportPacket(ver, flags, cid, seq, ack, rwin, length, checksum,
                                     payload)

\* the byte strings of at most n bytes over the byte values B
RECURSIVE BytesUpTo(_, _)
BytesUpTo(B, n) ==
    IF n = 0 THEN {<< >>}
    ELSE BytesUpTo(B, n - 1) \cup
         {Append(b, x) : b \in {c \in BytesUpTo(B, n - 1) : Len(c) = n - 1}, x \in B}

\* the packets that are converted: constructed as the endpoints construct
\* them (ver and checksum left at their defaults), with field values at both
\* ends of the field widths
CodecPackets ==
    {NewTransportPacket(1, fl, cid, seq, ack, rwin, 0, 0, pl) :
        fl \in {0, FIN, SYN + ACK},
        cid \in {1, 65535},
        seq \in {0, 16909060},
        ack \in {0, 2147483647},
        rwin \in {10},
        pl \in BytesUpTo({0, 97}, MaxPayloadLen)}

\* the values a corrupted byte is replaced by
CorruptValues == {0, 1, 2, 127}

InitCodec ==
    /\ LOSS_PROFILE = "clean"
    /\ InitEndpoints
    /\ ResendsNotCounted
    /\ step = NoLog
    /\ codec_pc = "new"
    /\ codec_obj \in CodecPackets
    /\ codec_packed = << >>
    /\ codec_data = << >>
    /\ codec_result = << >>
    /\ NonCodecIdle

\* p.pack()
Pack ==
    /\ codec_pc = "new"
    /\ codec_packed' = pack(codec_obj)
    /\ codec_obj' = Packed(codec_obj)
    /\ codec_pc' = "packed"
    /\ UNCHANGED <<connVars, nonCodecVars, codec_data, codec_result>>

\* the substrate hands the datagram over as it was sent
Intact ==
    /\ codec_pc = "packed"
    /\ codec_data' = codec_packed
    /\ codec_pc' = "received"
    /\ UNCHANGED <<connVars, nonCodecVars, codec_obj, codec_packed, codec_result>>

\* one byte of the datagram is replaced by a different value
Corrupt ==
    /\ codec_pc = "packed"
    /\ \E i \in 1..Len(codec_packed), v \in CorruptValues :
        /\ v # codec_packed[i]
        /\ codec_data' = [codec_packed EXCEPT ![i] = v]
    /\ codec_pc' = "received"
    /\ UNCHANGED <<connVars, nonCodecVars, codec_obj, codec_packed, codec_result>>

\* only the first n bytes of the datagram arrive
Truncate ==
    /\ codec_pc = "packed"
    /\ \E n \in 0..(Len(codec_packed) - 1) :
        codec_data' = SubSeq(codec_packed, 1, n)
    /\ codec_pc' = "received"
    /\ UNCHANGED <<connVars, nonCodecVars, codec_obj, codec_packed, codec_result>>

\* TransportPacket.unpack(data)
Unpack ==
    /\ codec_pc = "received"
    /\ codec_result' = unpack(codec_data)
    /\ codec_pc' = "done"
    /\ UNCHANGED <<connVars, nonCodecVars, codec_obj, codec_packed, codec_data>>

CodecNext ==
    \/ Pack
    \/ Intact
    \/ Corrupt
    \/ Truncate
    \/ Unpack

CodecSpec == InitCodec /\ [][CodecNext]_vars

\* ------------------------------------------------------------------------
\* Datagrams damaged in transit
\* ------------------------------------------------------------------------
\* the bytes on the wire of a packet of chan: pkt.pack(), with ver, length
\* and checksum left at the constructor's defaults
Datagram(pkt) ==
    pack(NewTransportPacket(1, pkt.flags, pkt.conn_id, pkt.seq, pkt.ack, pkt.recv_win,
                            0, 0, pkt.payload))

\* the fields of the packet that unpack() returned, as the receiver reads them
Received(p) == TransportPacket(p.flags, p.conn_id, p.seq, p.ack, p.recv_win, p.payload)

\* what the substrate can make of a datagram d: the first 19 bytes of it, d
\* with the last byte of the checksum field changed, and d with the last
\* byte of the length field changed
DamagedForms(d) ==
    {SubSeq(d, 1, HEADER_LEN - 1),
     [d EXCEPT ![HEADER_LEN] = (@ + 1) % 256],
     [d EXCEPT ![HEADER_LEN - 4] = (@ + 1) % 256]}

\* mutant of except_continue: the exception ends the receiver thread
except_ends_loop(e) == running' = [running EXCEPT ![e] = FALSE]

\* "except Exception: continue": the loop goes on
except_continue(e) == running' = running

\* one turn of _recv_loop in which recvfrom returns the bytes d, a damaged
\* form of a datagram that is on the wire towards e: unpack(d) raises and the
\* except clause swallows the error, or unpack(d) returns a packet and the
\* turn goes on with it
RecvDamaged(e, d) ==
    /\ running[e]
    /\ sock_open[e]
    /\ IF unpack(d) = ValueError
       THEN /\ except_continue(e)
            /\ step' = Did(e, "recv_malformed", <<[raw |-> d]>>, << >>, << >>)
            /\ UNCHANGED <<final_ack_rcvd, LOSS_PROFILE, otherVars, resentMetrics, chanVars,
                           senderVars, recvVars, conn_id, connected, remote_addr, sock_open,
                           sentMetrics, dlvMetrics, rtt_samples, appVars, delivered>>
       ELSE LET pkt == Received(unpack(d))
            IN  \/ RecvSyn(e, pkt)
                \/ RecvFin(e, pkt)
                \/ RecvIgnored(e, pkt)
                \/ RecvData(e, pkt)
                \/ RecvAck(e, pkt)

recv_damaged ==
    \E e \in E : \E pkt \in chan[e] : \E d \in DamagedForms(Datagram(pkt)) :
        RecvDamaged(e, d)

DamageNext ==
    \/ Next
    \/ recv_damaged

InitDamage ==
    /\ LOSS_PROFILE = "bursty"
    /\ InitEndpoints
    /\ ResendsNotCounted
    /\ step = [actor |-> "-", op |-> "init", rx |-> << >>, tx |-> << >>, cb |-> << >>]
    /\ OthersIdle

DamageSpec == InitDamage /\ [][DamageNext]_vars

\* ------------------------------------------------------------------------
\* maybe_drop_packet: the loss injector, statement by statement
\* ------------------------------------------------------------------------
\* the probabilities, in hundredths
RANDOM_LOSS_PROB == 8
BURSTY_BASE_LOSS == 2
BURSTY_BURST_LOSS == 25
BURSTY_BURST_CHANCE == 10
BURSTY_MIN_LEN == 3
BURSTY_MAX_LEN == 8

\* calls of maybe_drop_packet in one run
MaxDropCalls == 6

\* values of r = random.random(), in hundredths: below every threshold,
\* between the thresholds, above them
Draws == {1, 5, 20, 50}

\* the call returns: the thread is outside maybe_drop_packet again and its
\* locals are gone
Return(t, value) ==
    /\ drop_result' = value
    /\ drop_pc' = [drop_pc EXCEPT ![t] = "idle"]
    /\ drop_r' = [drop_r EXCEPT ![t] = 0]
    /\ drop_loaded' = [drop_loaded EXCEPT ![t] = 0]

\* lines 33-39: the profile test, the draw of r, the "random" profile
Call(t) ==
    /\ drop_pc[t] = "idle"
    /\ drop_calls < MaxDropCalls
    /\ drop_calls' = drop_calls + 1
    /\ IF LOSS_PROFILE = "clean"
       THEN Return(t, FALSE)
       ELSE \E r \in Draws :
               IF LOSS_PROFILE = "random"
               THEN Return(t, r < RANDOM_LOSS_PROB)
               ELSE /\ drop_r' = [drop_r EXCEPT ![t] = r]
                    /\ drop_pc' = [drop_pc EXCEPT ![t] = "43"]
                    /\ UNCHANGED <<drop_result, drop_loaded>>
    /\ UNCHANGED <<connVars, nonLossVars, burst_active, burst_remaining, burst_len,
                   burst_calls>>

\* line 43, "if _burst_active:", and lines 50-59 when it is not
TestActive(t) ==
    /\ drop_pc[t] = "43"
    /\ IF burst_active
       THEN /\ drop_pc' = [drop_pc EXCEPT ![t] = "44"]
            /\ burst_calls' = burst_calls + 1
            /\ UNCHANGED <<drop_result, drop_r, drop_loaded>>
       ELSE /\ IF drop_r[t] < BURSTY_BASE_LOSS THEN Return(t, TRUE)
               ELSE IF drop_r[t] < BURSTY_BURST_CHANCE
                    THEN /\ drop_pc' = [drop_pc EXCEPT ![t] = "55"]
                         /\ UNCHANGED <<drop_result, drop_r, drop_loaded>>
                    ELSE Return(t, FALSE)
            /\ UNCHANGED burst_calls
    /\ UNCHANGED <<connVars, nonLossVars, burst_active, burst_remaining, drop_calls,
                   burst_len>>

\* line 44, "_burst_remaining -= 1": the global is read
LoadRemaining(t) ==
    /\ drop_pc[t] = "44"
    /\ drop_loaded' = [drop_loaded EXCEPT ![t] = burst_remaining]
    /\ drop_pc' = [drop_pc EXCEPT ![t] = "44s"]
    /\ UNCHANGED <<connVars, nonLossVars, burst_active, burst_remaining, drop_r, drop_result,
                   drop_calls, burst_len, burst_calls>>

\* line 44, "_burst_remaining -= 1": the difference is stored
StoreRemaining(t) ==
    /\ drop_pc[t] = "44s"
    /\ burst_remaining' = drop_loaded[t] - 1
    /\ drop_pc' = [drop_pc EXCEPT ![t] = "45"]
    /\ UNCHANGED <<connVars, nonLossVars, burst_active, drop_r, drop_loaded, drop_result,
                   drop_calls, burst_len, burst_calls>>

\* line 45, "if _burst_remaining <= 0:", and line 47 when it is not
TestRemaining(t) ==
    /\ drop_pc[t] = "45"
    /\ IF burst_remaining <= 0
       THEN /\ drop_pc' = [drop_pc EXCEPT ![t] = "46"]
            /\ UNCHANGED <<drop_result, drop_r, drop_loaded>>
       ELSE Return(t, drop_r[t] < BURSTY_BURST_LOSS)
    /\ UNCHANGED <<connVars, nonLossVars, burst_active, burst_remaining, drop_calls,
                   burst_len, burst_calls>>

\* lines 46-47: the burst ends
Deactivate(t) ==
    /\ drop_pc[t] = "46"
    /\ burst_active' = FALSE
    /\ Return(t, drop_r[t] < BURSTY_BURST_LOSS)
    /\ UNCHANGED <<connVars, nonLossVars, burst_remaining, drop_calls, burst_len, burst_calls>>

\* line 55, "_burst_active = True": a burst begins
Arm(t) ==
    /\ drop_pc[t] = "55"
    /\ burst_active' = TRUE
    /\ burst_calls' = 0
    /\ drop_pc' = [drop_pc EXCEPT ![t] = "56"]
    /\ UNCHANGED <<connVars, nonLossVars, burst_remaining, drop_r, drop_loaded, drop_result,
                   drop_calls, burst_len>>

\* lines 56-57: random.randint has returned, the length is stored
DrawLength(t) ==
    /\ drop_pc[t] = "56"
    /\ \E L \in BURSTY_MIN_LEN..BURSTY_MAX_LEN :
        /\ burst_remaining' = L
        /\ burst_len' = L
    /\ Return(t, drop_r[t] < BURSTY_BURST_LOSS)
    /\ UNCHANGED <<connVars, nonLossVars, burst_active, drop_calls, burst_calls>>

maybe_drop_packet(t) ==
    \/ Call(t)
    \/ TestActive(t)
    \/ LoadRemaining(t)
    \/ StoreRemaining(t)
    \/ TestRemaining(t)
    \/ Deactivate(t)
    \/ Arm(t)
    \/ DrawLength(t)

InjectorNext == \E t \in Callers : maybe_drop_packet(t)

InitInjector ==
    /\ LOSS_PROFILE \in LossProfiles
    /\ InitEndpoints
    /\ ResendsNotCounted
    /\ step = NoLog
    /\ OthersIdle

InjectorSpec == InitInjector /\ [][InjectorNext]_vars

\* ------------------------------------------------------------------------
\* The threads of an endpoint and self.lock
\* ------------------------------------------------------------------------
\* Where the threads of one TransportConnection are, by line of
\* src/transport.py, in the methods that touch the sender state (send_base,
\* next_seq_num, unacked_packets, peer_recv_win, timer).  The values of the
\* fields are left out; what they decide (whether send_msg admits, whether an
\* ACK advances the window, whether a timer is cancelled or started) is a
\* free choice.  Lines:
\*   142  connect(): the wait loop
\*   176  send_msg: "with self.lock:", waiting      177  send_msg: lines 177-201
\*   211  _timeout: "with self.lock:", waiting      212  _timeout: lines 212-220
\*   155  _handle_handshake: self.peer_recv_win = ...
\*   239  _recv_loop, SYN-ACK: self.peer_recv_win = ...
\*   292  _recv_loop: "if pkt.ack > self.send_base:"
\*   294  _recv_loop: "with self.lock:", waiting    295  _recv_loop: lines 295-310
\*   321  close(): seq=self.next_seq_num
\*   331  close(): "if self.timer: self.timer.cancel()"
\*   334  close() has returned

\* the fields a thread at a line reads
Reads(line) ==
    CASE line = "177" -> {"peer_recv_win", "next_seq_num", "send_base", "timer"}
      [] line = "212" -> {"send_base", "next_seq_num", "unacked_packets", "timer"}
      [] line = "292" -> {"send_base"}
      [] line = "295" -> {"send_base", "next_seq_num", "unacked_packets", "timer"}
      [] line = "321" -> {"next_seq_num"}
      [] line = "331" -> {"timer"}
      [] OTHER -> {}

\* the fields a thread at a line writes (cancelling the Timer counts as a
\* write of the timer handle)
Writes(line) ==
    CASE line = "177" -> {"next_seq_num", "unacked_packets", "timer"}
      [] line = "212" -> {"timer"}
      [] line = "155" -> {"peer_recv_win"}
      [] line = "239" -> {"peer_recv_win"}
      [] line = "295" -> {"peer_recv_win", "unacked_packets", "send_base", "timer"}
      [] line = "331" -> {"timer"}
      [] OTHER -> {}

\* thread t of e moves from one line to another
Goto(e, t, from, to) ==
    /\ at[e][t] = from
    /\ at' = [at EXCEPT ![e][t] = to]

\* "with self.lock:" is entered
Acquire(e, t, from, to) ==
    /\ Goto(e, t, from, to)
    /\ lock[e] = "None"
    /\ lock' = [lock EXCEPT ![e] = t]

\* the body of a "with self.lock:" is left
Release(e, t, from) ==
    /\ Goto(e, t, from, "idle")
    /\ lock' = [lock EXCEPT ![e] = "None"]

\* the initiator's application calls connect()
LkConnect(e) ==
    /\ ~is_server(e) /\ lk_open[e] /\ ~lk_ready[e]
    /\ Goto(e, "app", "idle", "142")
    /\ UNCHANGED <<connVars, nonLockVars, lock, lk_ready, lk_timer, lk_open>>

\* connect() returns, or raises TimeoutError
LkConnectEnds(e) ==
    /\ Goto(e, "app", "142", "idle")
    /\ UNCHANGED <<connVars, nonLockVars, lock, lk_ready, lk_timer, lk_open>>

\* the application calls send_msg
LkSendMsg(e) ==
    /\ lk_open[e] /\ lk_ready[e]
    /\ Goto(e, "app", "idle", "176")
    /\ UNCHANGED <<connVars, nonLockVars, lock, lk_ready, lk_timer, lk_open>>

LkSendMsgLocks(e) ==
    /\ Acquire(e, "app", "176", "177")
    /\ UNCHANGED <<connVars, nonLockVars, lk_ready, lk_timer, lk_open>>

\* lines 177-201: the message is refused, or admitted with or without a
\* call of _start_timer
LkSendMsgBody(e) ==
    /\ Release(e, "app", "177")
    /\ \E started \in BOOLEAN : lk_timer' = [lk_timer EXCEPT ![e] = @ \/ started]
    /\ UNCHANGED <<connVars, nonLockVars, lk_ready, lk_open>>

\* the application calls close(): line 321 if self.connected, which only
\* the initiator ever sets
LkClose(e) ==
    /\ lk_open[e]
    /\ lk_open' = [lk_open EXCEPT ![e] = FALSE]
    /\ Goto(e, "app", "idle", IF ~is_server(e) /\ lk_ready[e] THEN "321" ELSE "331")
    /\ UNCHANGED <<connVars, nonLockVars, lock, lk_ready, lk_timer>>

\* lines 321-330
LkCloseFin(e) ==
    /\ Goto(e, "app", "321", "331")
    /\ UNCHANGED <<connVars, nonLockVars, lock, lk_ready, lk_timer, lk_open>>

\* lines 331-333: a pending timer is cancelled
LkCloseCancel(e) ==
    /\ Goto(e, "app", "331", "334")
    /\ lk_timer' = [lk_timer EXCEPT ![e] = FALSE]
    /\ UNCHANGED <<connVars, nonLockVars, lock, lk_ready, lk_open>>

\* the receiver gets a packet with SYN: the responder any SYN, the initiator
\* the SYN-ACK it waits for
LkRecvSyn(e) ==
    /\ lk_open[e]
    /\ IF is_server(e)
       THEN Goto(e, "recv", "idle", "155")
       ELSE at[e]["app"] = "142" /\ ~lk_ready[e] /\ Goto(e, "recv", "idle", "239")
    /\ UNCHANGED <<connVars, nonLockVars, lock, lk_ready, lk_timer, lk_open>>

\* line 155 with lines 156-163, line 239 with lines 240-248
LkHandshakeStore(e) ==
    /\ Goto(e, "recv", IF is_server(e) THEN "155" ELSE "239", "idle")
    /\ lk_ready' = [lk_ready EXCEPT ![e] = TRUE]
    /\ UNCHANGED <<connVars, nonLockVars, lock, lk_timer, lk_open>>

\* the receiver gets a packet that reaches the ACK processing
LkRecvAck(e) ==
    /\ lk_open[e]
    /\ is_server(e) \/ lk_ready[e]
    /\ Goto(e, "recv", "idle", "292")
    /\ UNCHANGED <<connVars, nonLockVars, lock, lk_ready, lk_timer, lk_open>>

\* line 292: the ack is above send_base or it is not
LkAckTest(e) ==
    /\ \E advances \in BOOLEAN :
           Goto(e, "recv", "292", IF advances THEN "294" ELSE "idle")
    /\ UNCHANGED <<connVars, nonLockVars, lock, lk_ready, lk_timer, lk_open>>

LkAckLocks(e) ==
    /\ Acquire(e, "recv", "294", "295")
    /\ UNCHANGED <<connVars, nonLockVars, lk_ready, lk_timer, lk_open>>

\* lines 295-310: the timer is cancelled or started
LkAckBody(e) ==
    /\ Release(e, "recv", "295")
    /\ \E started \in BOOLEAN : lk_timer' = [lk_timer EXCEPT ![e] = started]
    /\ UNCHANGED <<connVars, nonLockVars, lk_ready, lk_open>>

\* a pending Timer expires and its thread calls _timeout
LkTimerExpires(e) ==
    /\ lk_timer[e]
    /\ lk_timer' = [lk_timer EXCEPT ![e] = FALSE]
    /\ Goto(e, "timer", "idle", "211")
    /\ UNCHANGED <<connVars, nonLockVars, lock, lk_ready, lk_open>>

LkTimeoutLocks(e) ==
    /\ Acquire(e, "timer", "211", "212")
    /\ UNCHANGED <<connVars, nonLockVars, lk_ready, lk_timer, lk_open>>

\* lines 212-220: the window is resent, the timer started again
LkTimeoutBody(e) ==
    /\ Release(e, "timer", "212")
    /\ lk_timer' = [lk_timer EXCEPT ![e] = TRUE]
    /\ UNCHANGED <<connVars, nonLockVars, lk_ready, lk_open>>

LockNext ==
    \E e \in E :
        \/ LkConnect(e)
        \/ LkConnectEnds(e)
        \/ LkSendMsg(e)
        \/ LkSendMsgLocks(e)
        \/ LkSendMsgBody(e)
        \/ LkClose(e)
        \/ LkCloseFin(e)
        \/ LkCloseCancel(e)
        \/ LkRecvSyn(e)
        \/ LkHandshakeStore(e)
        \/ LkRecvAck(e)
        \/ LkAckTest(e)
        \/ LkAckLocks(e)
        \/ LkAckBody(e)
        \/ LkTimerExpires(e)
        \/ LkTimeoutLocks(e)
        \/ LkTimeoutBody(e)

InitLock ==
    /\ LOSS_PROFILE = "bursty"
    /\ InitEndpoints
    /\ ResendsNotCounted
    /\ step = NoLog
    /\ OthersIdle

LockSpec == InitLock /\ [][LockNext]_vars

\* ------------------------------------------------------------------------
\* The chat server (src/server.py)
\* ------------------------------------------------------------------------
\* The receive loop is one thread and handles one datagram at a time; the
\* thread of process_message_queue takes one queued message at a time and
\* broadcasts it.  Each of the two is one action.  A payload is written as
\* the words msg.split(" ", 2) cuts it into, a reply as its text followed by
\* the values formatted into it.  The dictionaries are functions on the
\* keys they hold.

\* conn_id values of the datagrams that reach the server
MaxChatConnId == 2
\* data packets that reach the server carry seq 0..MaxChatSeq
MaxChatSeq == 2
\* send_seq of a ClientConnection stays within MaxSendSeq
MaxSendSeq == 2
\* messages in priority_queue, messages in the history of a room
MaxQueued == 1
MaxHistory == 1
\* datagrams of ClientConnection.send_msg the substrate loses
MaxLost == 1
\* lines the user of client.py types
MaxChatCalls == 2

MESSAGE_HISTORY_SIZE == 50

ChatConnIds == 1..MaxChatConnId
ChatAddrs == {"a1", "a2"}

\* ClientConnection(conn_id, addr)
ClientConnection(c, addr) ==
    [conn_id |-> c, addr |-> addr, connected |-> FALSE, expected_seq |-> 0,
     send_seq |-> 0, recv_win |-> 10, peer_recv_win |-> 5, logged_in |-> FALSE,
     username |-> "None"]

\* the tables, and the datagrams a handler has passed to server_sock.sendto
Tables ==
    [clients |-> clients, addr_to_conn_id |-> addr_to_conn_id,
     client_names |-> client_names, username_to_conn_id |-> username_to_conn_id,
     logged_in_users |-> logged_in_users, rooms |-> rooms,
     room_history |-> room_history, priority_queue |-> priority_queue,
     out |-> << >>]

\* d[k] = v, del d[k] (where the code has tested k in d), d.get(k, default)
With(d, k, v) == (k :> v) @@ d
Without(d, k) == [x \in (DOMAIN d) \ {k} |-> d[x]]
Get(d, k, default) == IF k \in DOMAIN d THEN d[k] ELSE default

\* str(n) for the numbers the model formats
str(n) == <<"0", "1", "2", "3", "4", "5", "6", "7", "8", "9">>[n + 1]

\* parts[0].upper(), for the words the model's clients send
upper(w) == CASE w = "login" -> "LOGIN" [] w = "logout" -> "LOGOUT" [] OTHER -> w

\* ClientConnection.send_msg(data)
ClientConnection_send_msg(T, c, data) ==
    LET client == T.clients[c]
        pkt == TransportPacket(0, client.conn_id, client.send_seq, client.expected_seq,
                               client.recv_win, data)
    IN  [T EXCEPT !.out = Append(@, [to |-> client.addr, pkt |-> pkt]),
                  !.clients[c].send_seq = @ + 1]

\* "for hist_msg in history: client.send_msg(hist_msg)"
RECURSIVE SendHistory(_, _, _)
SendHistory(T, c, history) ==
    IF history = << >> THEN T
    ELSE SendHistory(ClientConnection_send_msg(T, c, Head(history)), c, Tail(history))

\* queue_message(priority, room, data, is_presence); the queue is kept in
\* the order of the timestamps
queue_message(T, priority, room, data, is_presence) ==
    [T EXCEPT !.priority_queue =
        Append(@, [priority |-> IF is_presence THEN 0 ELSE priority,
                   room |-> room, data |-> data])]

\* "client.username if client.username else client_names.get(conn_id,
\* str(client.addr))"
display_name(T, c) ==
    IF T.clients[c].username # "None" THEN T.clients[c].username
    ELSE Get(T.client_names, c, T.clients[c].addr)

\* rooms[room] and room_history[room] of the defaultdicts: the key exists
\* after the access
Touched(d, k, default) == IF k \in DOMAIN d THEN d ELSE With(d, k, default)

\* deque(maxlen=MESSAGE_HISTORY_SIZE).append(m)
Appended(h, m) ==
    IF Len(h) = MESSAGE_HISTORY_SIZE THEN Append(Tail(h), m) ELSE Append(h, m)

\* handle_client_message, LOGIN
Login(T, c, parts) ==
    LET username == parts[2]
    IN  IF username = ""
        THEN ClientConnection_send_msg(T, c, <<"Error: Username cannot be empty.">>)
        ELSE IF username \in DOMAIN T.username_to_conn_id
                /\ T.username_to_conn_id[username] # c
        THEN ClientConnection_send_msg(T, c,
                 <<"Error: Username '{username}' is already taken.", username>>)
        ELSE ClientConnection_send_msg(
                 [T EXCEPT !.username_to_conn_id = With(@, username, c),
                           !.clients[c].logged_in = TRUE,
                           !.clients[c].username = username,
                           !.client_names = With(@, c, username),
                           !.logged_in_users = @ \cup {c}],
                 c, <<"Logged in as '{username}'. Welcome!", username>>)

\* handle_client_message, LOGOUT
Logout(T, c) ==
    LET client == T.clients[c]
    IN  IF client.logged_in /\ client.username # "None"
        THEN ClientConnection_send_msg(
                 [T EXCEPT !.username_to_conn_id = Without(@, client.username),
                           !.clients[c].logged_in = FALSE,
                           !.clients[c].username = "None",
                           !.logged_in_users = @ \ {c}],
                 c, <<"Logged out successfully.">>)
        ELSE ClientConnection_send_msg(T, c, <<"You are not logged in.">>)

\* handle_client_message, JOIN
Join(T, c, parts) ==
    LET room == parts[2]
        T1 == [T EXCEPT !.rooms = With(@, room, Get(@, room, {}) \cup {c}),
                        !.room_history = Touched(@, room, << >>)]
        history == T1.room_history[room]
        T2 == IF history # << >>
              THEN SendHistory(
                       ClientConnection_send_msg(T1, c,
                           <<"[history] Last {len(history)} messages in {room}:",
                             str(Len(history)), room>>),
                       c, history)
              ELSE T1
    IN  queue_message(T2, 0, room,
                      <<"[presence] {client_name} joined {room}", display_name(T2, c), room>>,
                      TRUE)

\* handle_client_message, LEAVE
Leave(T, c, parts) ==
    LET room == parts[2]
        T1 == [T EXCEPT !.rooms = With(@, room, Get(@, room, {}) \ {c})]
    IN  queue_message(T1, 0, room,
                      <<"[presence] {client_name} left {room}", display_name(T1, c), room>>,
                      TRUE)

\* handle_client_message, MSG
Msg(T, c, parts) ==
    LET room == parts[2]
        text == parts[3]
        T1 == [T EXCEPT !.rooms = Touched(@, room, {})]
        full_msg == <<"[{room}] {client_name}: {text}", room, display_name(T1, c), text>>
    IN  IF c \in T1.rooms[room]
        THEN queue_message(
                 [T1 EXCEPT !.room_history =
                     With(@, room, Appended(Get(@, room, << >>), full_msg))],
                 1, room, full_msg, FALSE)
        ELSE ClientConnection_send_msg(T1, c,
                 <<"You are not in {room}. Use JOIN {room} first.", room>>)

\* handle_client_message, DM
Dm(T, c, parts) ==
    LET target_username == parts[2]
        text == parts[3]
        target_conn_id == Get(T.username_to_conn_id, target_username, 0)
    IN  IF target_conn_id # 0 /\ target_conn_id \in DOMAIN T.clients
        THEN ClientConnection_send_msg(
                 ClientConnection_send_msg(T, target_conn_id,
                     <<"[DM from {sender_name}] {text}", display_name(T, c), text>>),
                 c, <<"[DM to {target_username}] {text}", target_username, text>>)
        ELSE ClientConnection_send_msg(T, c,
                 <<"Error: User '{target_username}' not found or not logged in.",
                   target_username>>)

\* handle_client_message(conn_id, data)
handle_client_message(T, c, parts) ==
    LET cmd == upper(parts[1])
    IN  IF c \notin DOMAIN T.clients THEN T
        ELSE IF cmd = "LOGIN" /\ Len(parts) >= 2 THEN Login(T, c, parts)
        ELSE IF cmd = "LOGOUT" THEN Logout(T, c)
        ELSE IF cmd # "NAME" /\ ~T.clients[c].logged_in
        THEN ClientConnection_send_msg(T, c,
                 <<"Error: You must LOGIN <username> first before using other commands.">>)
        ELSE IF cmd = "JOIN" /\ Len(parts) >= 2 THEN Join(T, c, parts)
        ELSE IF cmd = "LEAVE" /\ Len(parts) >= 2 THEN Leave(T, c, parts)
        ELSE IF cmd = "MSG" /\ Len(parts) >= 3 THEN Msg(T, c, parts)
        ELSE IF cmd = "DM" /\ Len(parts) >= 3 THEN Dm(T, c, parts)
        ELSE IF cmd = "NAME" /\ Len(parts) >= 2
        THEN ClientConnection_send_msg(
                 [T EXCEPT !.client_names = With(@, c, parts[2])],
                 c, <<"Name set to: {name} (Note: Use LOGIN <username> for persistent unique username)",
                      parts[2]>>)
        ELSE IF cmd = "SHUTDOWN"
        THEN ClientConnection_send_msg(T, c, <<"Server shutting down...">>)
        ELSE ClientConnection_send_msg(T, c, <<"Invalid command.">>)

\* broadcast_to_room, the loop over member_ids (ascending, as CPython lists
\* a set of small integers)
RECURSIVE SendEach(_, _, _)
SendEach(T, member_ids, data) ==
    IF member_ids = {} THEN T
    ELSE LET c == CHOOSE x \in member_ids : \A y \in member_ids : x <= y
         IN  SendEach(IF c \in DOMAIN T.clients
                      THEN ClientConnection_send_msg(T, c, data) ELSE T,
                      member_ids \ {c}, data)

\* broadcast_to_room(room, data)
broadcast_to_room(T, room, data) ==
    LET T1 == [T EXCEPT !.rooms = Touched(@, room, {})]
    IN  SendEach(T1, T1.rooms[room], data)

\* mutant of IsNewClient: every SYN makes a fresh ClientConnection
IsNewClient_Always(T, c) == TRUE

\* "if conn_id not in clients"
IsNewClient(T, c) == c \notin DOMAIN T.clients

\* mutant of AckFinalises: the final ACK must acknowledge the SYN-ACK
AckFinalises_Strict(client, pkt) == ~client.connected /\ pkt.ack = 1

\* "if client and not client.connected", for a client that exists
AckFinalises(client, pkt) == ~client.connected

\* handle_handshake(pkt, addr) of the server
server_handle_handshake(T, pkt, addr) ==
    LET c == pkt.conn_id
    IN  IF HasFlag(pkt.flags, SYN) /\ ~HasFlag(pkt.flags, ACK)
        THEN LET T1 == IF IsNewClient(T, c)
                       THEN [T EXCEPT !.clients = With(@, c, ClientConnection(c, addr)),
                                      !.addr_to_conn_id = With(@, addr, c)]
                       ELSE T
                 syn_ack == TransportPacket(SYN + ACK, c, 0, pkt.seq + 1, 10, << >>)
             IN  [T1 EXCEPT !.out = Append(@, [to |-> addr, pkt |-> syn_ack])]
        ELSE IF HasFlag(pkt.flags, ACK) /\ ~HasFlag(pkt.flags, SYN)
        THEN IF c \in DOMAIN T.clients /\ AckFinalises(T.clients[c], pkt)
             THEN [T EXCEPT !.clients[c].connected = TRUE,
                            !.clients[c].peer_recv_win =
                                IF pkt.recv_win > 0 THEN pkt.recv_win ELSE 1]
             ELSE T
        ELSE T

\* handle_data_packet(pkt, addr)
handle_data_packet(T, pkt, addr) ==
    LET c == pkt.conn_id
    IN  IF c \notin DOMAIN T.clients \/ ~T.clients[c].connected THEN T
        ELSE LET T1 == IF pkt.payload # << >> /\ pkt.seq = T.clients[c].expected_seq
                       THEN handle_client_message(
                                [T EXCEPT !.clients[c].expected_seq = @ + 1],
                                c, pkt.payload)
                       ELSE T
                 ack_pkt == TransportPacket(ACK, c, 0, T1.clients[c].expected_seq,
                                            T1.clients[c].recv_win, << >>)
             IN  [T1 EXCEPT !.out = Append(@, [to |-> addr, pkt |-> ack_pkt])]

\* handle_fin, "for room in rooms_to_notify: queue_message(...)"
RECURSIVE NotifyRooms(_, _, _)
NotifyRooms(T, rooms_to_notify, username) ==
    IF rooms_to_notify = {} THEN T
    ELSE LET room == CHOOSE r \in rooms_to_notify : TRUE
         IN  NotifyRooms(
                 queue_message(T, 0, room,
                               <<"[presence] {username} left {room}", username, room>>, TRUE),
                 rooms_to_notify \ {room}, username)

\* handle_fin(pkt)
handle_fin(T, pkt) ==
    LET c == pkt.conn_id
    IN  IF c \notin DOMAIN T.clients THEN T
        ELSE LET client == T.clients[c]
                 username == display_name(T, c)
                 rooms_to_notify == {r \in DOMAIN T.rooms : c \in T.rooms[r]}
                 T1 == [T EXCEPT !.rooms = [r \in DOMAIN @ |-> @[r] \ {c}]]
                 T2 == NotifyRooms(T1, rooms_to_notify, username)
                 T3 == IF client.logged_in /\ client.username # "None"
                       THEN [T2 EXCEPT !.username_to_conn_id = Without(@, client.username),
                                       !.logged_in_users = @ \ {c}]
                       ELSE T2
             IN  [T3 EXCEPT !.clients = Without(@, c),
                            !.addr_to_conn_id = Without(@, client.addr),
                            !.client_names = Without(@, c)]

\* receive_loop, the routing of one packet
Routed(T, pkt, addr) ==
    IF HasFlag(pkt.flags, SYN) THEN server_handle_handshake(T, pkt, addr)
    ELSE IF HasFlag(pkt.flags, FIN) THEN handle_fin(T, pkt)
    ELSE IF HasFlag(pkt.flags, ACK) /\ pkt.payload = << >>
    THEN server_handle_handshake(T, pkt, addr)
    ELSE IF pkt.payload # << >> THEN handle_data_packet(T, pkt, addr)
    ELSE T

\* the tables stay within the bounds of the model
WithinBounds(T) ==
    /\ \A c \in DOMAIN T.clients : T.clients[c].send_seq <= MaxSendSeq
    /\ Len(T.priority_queue) <= MaxQueued
    /\ \A r \in DOMAIN T.room_history : Len(T.room_history[r]) <= MaxHistory

\* the datagrams of `out` that ClientConnection.send_msg sent to an address
\* of the modelled wire
OnWire(out) ==
    {i \in 1..Len(out) : out[i].to \in DOMAIN chan /\ out[i].pkt.payload # << >>}

\* sequence numbers of the messages sent to a client of which no datagram
\* is on the wire
LostTo(cl, ch) ==
    {<<c, k>> \in (DOMAIN cl) \X (0..MaxSendSeq) :
        /\ cl[c].addr \in DOMAIN ch
        /\ k < cl[c].send_seq
        /\ ~\E p \in ch[cl[c].addr] :
               p.conn_id = c /\ p.seq = k /\ p.flags = 0 /\ p.payload # << >>}

\* server_sock.sendto for every datagram of `out`, those of `lost` never
\* arriving; the server's socket does not pass through the loss injector
RECURSIVE Wire(_, _, _, _)
Wire(ch, out, i, lost) ==
    IF i > Len(out) THEN ch
    ELSE Wire(IF out[i].to \in DOMAIN ch /\ i \notin lost
              THEN [ch EXCEPT ![out[i].to] = @ \cup {out[i].pkt}] ELSE ch,
              out, i + 1, lost)

\* the tables and the wire after a handler
Store(op, rx, T) ==
    /\ WithinBounds(T)
    /\ clients' = T.clients
    /\ addr_to_conn_id' = T.addr_to_conn_id
    /\ client_names' = T.client_names
    /\ username_to_conn_id' = T.username_to_conn_id
    /\ logged_in_users' = T.logged_in_users
    /\ rooms' = T.rooms
    /\ room_history' = T.room_history
    /\ priority_queue' = T.priority_queue
    /\ \E lost \in SUBSET OnWire(T.out) :
           /\ chan' = Wire(chan, T.out, 1, lost)
           /\ Cardinality(LostTo(T.clients, chan')) <= MaxLost
    /\ step' = Did("srv", op, rx, T.out, << >>)
    /\ UNCHANGED <<LOSS_PROFILE, senderVars, recvVars, ctlVars, sentMetrics, dlvMetrics,
                   resentMetrics, rtt_samples, appVars, delivered, final_ack_rcvd,
                   nonChatVars>>

\* one turn of receive_loop: recvfrom returns the datagram d
receive_loop(d) == Store("receive_loop", <<d>>, Routed(Tables, d.pkt, d.addr))

\* the entry PriorityQueue.get returns: the oldest of the lowest priority
NextQueued(q) ==
    CHOOSE i \in 1..Len(q) :
        \A j \in 1..Len(q) :
            q[i].priority < q[j].priority \/ (q[i].priority = q[j].priority /\ i <= j)

\* one turn of process_message_queue
process_message_queue ==
    /\ priority_queue # << >>
    /\ LET i == NextQueued(priority_queue)
           entry == priority_queue[i]
           T == [Tables EXCEPT !.priority_queue =
                    SubSeq(@, 1, i - 1) \o SubSeq(@, i + 1, Len(@))]
       IN  Store("process_message_queue", << >>,
                 IF entry.room # "" THEN broadcast_to_room(T, entry.room, entry.data)
                 ELSE T)

\* what the model's clients type
ChatLines ==
    {<<"LOGIN", "alice">>, <<"LOGIN", "bob">>, <<"logout">>, <<"NAME", "n">>,
     <<"JOIN", "r">>, <<"MSG", "r", "hi">>}

\* the datagrams of the client with conn_id 1 that reach the server's
\* socket: its SYN, from either address, the final ACK of a handshake and
\* another ACK, FIN, data
FirstClientDatagrams ==
    {[pkt |-> TransportPacket(SYN, 1, 0, 0, 10, << >>), addr |-> a] : a \in ChatAddrs}
    \cup {[pkt |-> p, addr |-> "a1"] :
            p \in {TransportPacket(FIN, 1, 0, 0, 0, << >>),
                   TransportPacket(ACK, 1, 1, 1, 10, << >>),
                   TransportPacket(ACK, 1, 0, 0, 0, << >>)}
                  \cup {TransportPacket(0, 1, s, 0, 10, line) :
                            s \in 0..MaxChatSeq, line \in ChatLines}}

\* the datagrams of the other clients: each connects from "a2", logs in as
\* alice and leaves
OtherClientDatagrams ==
    {[pkt |-> p, addr |-> "a2"] :
        p \in UNION {{TransportPacket(SYN, c, 0, 0, 10, << >>),
                      TransportPacket(ACK, c, 1, 1, 10, << >>),
                      TransportPacket(0, c, 0, 0, 10, <<"LOGIN", "alice">>),
                      TransportPacket(FIN, c, 0, 0, 0, << >>)}
                     : c \in ChatConnIds \ {1}}}

ChatDatagrams == FirstClientDatagrams \cup OtherClientDatagrams

chat_datagram == \E d \in ChatDatagrams : receive_loop(d)

ChatNext ==
    \/ chat_datagram
    \/ process_message_queue

InitChat ==
    /\ LOSS_PROFILE = "clean"
    /\ InitEndpoints
    /\ ResendsNotCounted
    /\ step = [NoLog EXCEPT !.op = "on"]
    /\ OthersIdle

ChatSpec == InitChat /\ [][ChatNext]_vars

\* ------------------------------------------------------------------------
\* A chat client (src/client.py) and the chat server
\* ------------------------------------------------------------------------
\* The initiator "c" is the TransportConnection of client.py and "s" is
\* the address of the chat server: what "c" sends to its remote address
\* reaches the server's receive loop, and what the server sends to the
\* client's address reaches the receiver thread of "c".  connect()
\* succeeds in these runs (client.py ends when it does not), and nobody
\* closes.

\* the lines the user types after the client has sent "NAME <name>"
UserLines == {<<"LOGIN", "alice">>, <<"JOIN", "r">>}

\* client.py, main: conn.send_msg("NAME <name>") after connect() has
\* returned, then the lines the user types while conn.connected
client_main_send ==
    /\ calls["c"] < MaxChatCalls
    /\ IF calls["c"] = 0
       THEN SendMsg("c", <<"NAME", "n">>)
       ELSE connected["c"] /\ \E line \in UserLines : SendMsg("c", line)

\* one turn of the server's receive_loop on a datagram of the client
reply_datagram == \E p \in chan["s"] : receive_loop([pkt |-> p, addr |-> "c"])

ReplyNext ==
    \/ ConnectStart
    \/ ConnectReturn
    \/ client_main_send
    \/ TimerFire("c")
    \/ timeout("c")
    \/ \E pkt \in chan["c"] : RecvSyn("c", pkt)
    \/ \E pkt \in chan["c"] : RecvData("c", pkt)
    \/ \E pkt \in chan["c"] : RecvAck("c", pkt)
    \/ reply_datagram

InitReply ==
    /\ LOSS_PROFILE = "clean"
    /\ InitEndpoints
    /\ ResendsNotCounted
    /\ step = NoLog
    /\ OthersIdle

\* Every thread that can take a step eventually takes one: the waiting
\* connect(), the client's receiver and Timer threads, the server's receive
\* loop; a pending timer eventually expires.  A datagram on the wire stays
\* receivable, so it is eventually received.
ReplyFairness ==
    /\ WF_vars(ConnectReturn)
    /\ WF_vars(TimerFire("c"))
    /\ WF_vars(timeout("c"))
    /\ WF_vars(\E pkt \in chan["c"] : RecvSyn("c", pkt))
    /\ WF_vars(\E pkt \in chan["c"] : RecvData("c", pkt))
    /\ WF_vars(\E pkt \in chan["c"] : RecvAck("c", pkt))
    /\ WF_vars(reply_datagram)

ReplySpec == InitReply /\ [][ReplyNext]_vars /\ ReplyFairness

\* ------------------------------------------------------------------------
\* Claims
\* ------------------------------------------------------------------------
\* the payloads of a log of on_message invocations
Payloads(log) == [n \in 1..Len(log) |-> log[n].payload]

\* C2: on every endpoint the n-th invocation of on_message carries sequence
\* number n-1 and the payload the peer admitted under that number, and the
\* receiver holds nothing beyond what it has delivered: the delivered
\* sequence numbers are the prefix 0, 1, 2, ... without gap or repetition.
C2_InOrderDelivery ==
    \A e \in E :
        /\ expected_seq_num[e] = Len(delivered[e])
        /\ Len(delivered[e]) <= Len(admitted[Peer(e)])
        /\ \A n \in 1..Len(delivered[e]) :
               /\ delivered[e][n].seq = n - 1
               /\ delivered[e][n].payload = admitted[Peer(e)][n]

\* C2 witness: three messages were delivered in order while datagrams with a
\* higher and with a lower sequence number are on the wire to be received.
C2_Witness ==
    /\ Len(delivered["s"]) = 3
    /\ \E p \in chan["s"] : p.payload # << >> /\ p.seq > expected_seq_num["s"]
    /\ \E p \in chan["s"] : p.payload # << >> /\ p.seq < expected_seq_num["s"]

\* C4: send_base never passes next_seq_num, on either endpoint.
C4_SendBaseLeNext == \A e \in E : send_base[e] <= next_seq_num[e]

\* C5: the keys of unacked_packets are exactly send_base..next_seq_num-1,
\* so their number is next_seq_num - send_base.
C5_UnackedIsWindow ==
    \A e \in E :
        /\ DOMAIN unacked_packets[e] = send_base[e]..(next_seq_num[e] - 1)
        /\ Cardinality(DOMAIN unacked_packets[e]) = next_seq_num[e] - send_base[e]

C7_TimerIffOutstanding ==
    (sock_open["c"] /\ fired["c"] = 0)
        => (timer["c"] = "pending" <=> send_base["c"] < next_seq_num["c"])

\* no sequence number has two RTT samples
NoDoubleSample(samples) ==
    \A i, j \in 1..Len(samples) : i # j => samples[i] # samples[j]

\* C10: a step that processes ack = A > send_base leaves send_base = A and no
\* unacked_packets[s] with s < A, and no sequence number ever gets a second
\* RTT sample.
C10_AckReleasesBelow ==
    [][\A e \in E :
          send_base'[e] # send_base[e]
              => /\ send_base'[e] > send_base[e]
                 /\ \A s \in DOMAIN unacked_packets'[e] : s >= send_base'[e]
                 /\ NoDoubleSample(rtt_samples'[e])]_vars

\* C3: once connect() has succeeded and everything the initiator's sender
\* holds is acknowledged, the responder's callback has received every
\* message that was passed to send_msg, in the order of the calls.
C3_AllSentDelivered ==
    (connState = "ok" /\ send_base["c"] = next_seq_num["c"])
        => Payloads(delivered["s"]) = [k \in 1..calls["c"] |-> <<k>>]

\* C8: after a handshake on the clean profile in which connect() returned and
\* the final ACK reached the responder (nobody has closed), both endpoints
\* are connected, hold the initiator's conn_id, and the initiator has
\* adopted the responder's recv_win (10).
C8_HandshakeEstablishesBoth ==
    (/\ LOSS_PROFILE = "clean"
     /\ connState = "ok"
     /\ final_ack_rcvd
     /\ sock_open["c"] /\ sock_open["s"])
        => /\ connected["c"]
           /\ connected["s"]
           /\ conn_id["s"] = conn_id["c"]
           /\ peer_recv_win["c"] = RECV_BUFFER_SIZE

\* C9: a send_msg call made while
\* next_seq_num >= send_base + min(window_size, peer_recv_win) changes nothing
\* but the count of calls: send_base, next_seq_num, unacked_packets, the
\* timer, bytes_sent and messages_sent stay as they are and nothing is put
\* on the wire; and the peer's callback only ever gets payloads that were
\* admitted, so the refused message is never delivered.
C9_WindowFullSendIsNoOp ==
    /\ [][\A e \in E :
            (/\ calls'[e] = calls[e] + 1
             /\ next_seq_num[e] >= send_base[e] + Min(WINDOW_SIZE, peer_recv_win[e]))
                => /\ UNCHANGED <<send_base, next_seq_num, unacked_packets, timer, fired,
                                  peer_recv_win, bytes_sent, messages_sent, chan,
                                  admitted, delivered>>
                   /\ \A n \in 1..Len(admitted'[e]) : admitted'[e][n] # <<calls'[e]>>]_vars
    /\ [](\A e \in E : \A n \in 1..Len(delivered[e]) :
            \E m \in 1..Len(admitted[Peer(e)]) :
                delivered[e][n].payload = admitted[Peer(e)][m])

\* C9 witness: the initiator made a sixth call with five packets outstanding
\* and it was refused: six calls, five admitted, nothing acknowledged.
C9_Witness ==
    /\ calls["c"] = 6
    /\ Len(admitted["c"]) = 5
    /\ send_base["c"] = 0
    /\ next_seq_num["c"] = 5

\* C1: on a lossy channel that nobody closes, every message admitted by
\* send_msg on an established connection (connect() has returned) is
\* eventually handed to the peer's on_message, at the position of its
\* sequence number.
C1_AdmittedEventuallyDelivered ==
    \A e \in E : \A k \in 1..MaxLossyCalls :
        (connState = "ok" /\ Len(admitted[e]) >= k)
            ~> (/\ Len(delivered[Peer(e)]) >= k
                /\ delivered[Peer(e)][k].payload = admitted[e][k])

\* the same for the messages of the initiator alone
InitiatorMessagesEventuallyDelivered ==
    \A k \in 1..MaxLossyCalls :
        (Len(admitted["c"]) >= k)
            ~> (/\ Len(delivered["s"]) >= k
                /\ delivered["s"][k].payload = admitted["c"][k])

\* the endpoint has completed the handshake: the initiator has processed the
\* SYN-ACK, the responder has received the final ACK
Established(e) == IF is_server(e) THEN final_ack_rcvd ELSE connected[e]

\* C11: a step that receives a data packet on an established endpoint passes
\* exactly one ACK to _sendto, whose ack is expected_seq_num, one more than
\* the last sequence number delivered, whatever the sequence number of the
\* packet received (ahead, behind or in order); and expected_seq_num, hence
\* the ack value emitted, never decreases.
C11_CumulativeAck ==
    /\ []((/\ step.rx # << >>
           /\ step.rx[1].payload # << >>
           /\ step.rx[1].flags = 0
           /\ Established(step.actor))
              => /\ step.op = "recv_data"
                 /\ expected_seq_num[step.actor] = Len(delivered[step.actor])
                 /\ step.tx = <<TransportPacket(ACK, conn_id[step.actor], 0,
                                                expected_seq_num[step.actor],
                                                recv_win[step.actor], << >>)>>)
    /\ [][\A e \in E : expected_seq_num'[e] >= expected_seq_num[e]]_vars

\* C11 witness: the responder, having delivered sequence 0 only, has just
\* received sequence 2 and answered ack = 1.
C11_Witness ==
    /\ step.op = "recv_data" /\ step.actor = "s"
    /\ final_ack_rcvd
    /\ Len(delivered["s"]) = 1
    /\ step.rx[1].seq = 2
    /\ step.tx[1].ack = 1

\* C12: when a step has delivered a data packet and the next step of the
\* same receiver receives the same packet again, the second step does not
\* call on_message, leaves expected_seq_num as it is and passes to _sendto
\* an ACK equal to the first in every field; the first step called
\* on_message once and advanced expected_seq_num by one.
C12_DuplicateIsIdempotent ==
    [][/\ (step'.cb # << >>)
            => /\ Len(step'.cb) = 1
               /\ Len(step'.tx) = 1
               /\ expected_seq_num'[step'.actor] = expected_seq_num[step'.actor] + 1
       /\ (/\ step.op = "recv_data" /\ step.cb # << >>
           /\ step'.op = "recv_data"
           /\ step'.actor = step.actor
           /\ step'.rx = step.rx)
            => /\ step'.cb = << >>
               /\ delivered' = delivered
               /\ expected_seq_num' = expected_seq_num
               /\ step'.tx = step.tx]_vars

\* C12 witness: the last step received once more the packet that the step
\* before it had delivered (its sequence number is the last one delivered,
\* and the step called no callback).
C12_Witness ==
    /\ step.op = "recv_data" /\ step.cb = << >>
    /\ Len(delivered[step.actor]) >= 1
    /\ step.rx[1].seq = expected_seq_num[step.actor] - 1
    /\ step.tx[1].ack = expected_seq_num[step.actor]

\* C13: for every packet p, unpack(p.pack()) returns a packet equal to p in
\* ver, flags, conn_id, seq, ack, recv_win, len, checksum and payload; the
\* bytes are a 20-byte header, every field in network byte order at its
\* offset, followed by the payload; the len field is the number of payload
\* bytes and the checksum field the sum of all bytes but its own.
C13_CodecRoundTrip ==
    (codec_pc = "done" /\ codec_data = codec_packed)
        => /\ codec_result = codec_obj
           /\ Len(codec_data) = 20 + Len(codec_obj.payload)
           /\ codec_data[1] = codec_obj.ver
           /\ codec_data[2] = codec_obj.flags
           /\ 256 * codec_data[3] + codec_data[4] = codec_obj.conn_id
           /\ 256 * (256 * (256 * codec_data[5] + codec_data[6]) + codec_data[7])
                  + codec_data[8] = codec_obj.seq
           /\ 256 * (256 * (256 * codec_data[9] + codec_data[10]) + codec_data[11])
                  + codec_data[12] = codec_obj.ack
           /\ 256 * codec_data[13] + codec_data[14] = codec_obj.recv_win
           /\ 256 * codec_data[15] + codec_data[16] = Len(codec_obj.payload)
           /\ SubSeq(codec_data, 21, Len(codec_data)) = codec_obj.payload
           /\ codec_obj.len = Len(codec_obj.payload)
           /\ codec_obj.checksum =
                  SumBytes(SubSeq(codec_data, 1, 16)) + SumBytes(codec_obj.payload)
           /\ 256 * (256 * (256 * codec_data[17] + codec_data[18]) + codec_data[19])
                  + codec_data[20] = codec_obj.checksum

\* C13 witness: a packet with a two-byte payload, the largest conn_id and a
\* multi-byte seq has been packed and unpacked.
C13_Witness ==
    /\ codec_pc = "done" /\ codec_data = codec_packed
    /\ codec_result = codec_obj
    /\ codec_obj.conn_id = 65535
    /\ codec_obj.seq = 16909060
    /\ Len(codec_obj.payload) = 2

\* the datagram handed to unpack differs from the packed one in exactly one
\* byte
OneByteReplaced ==
    /\ Len(codec_data) = Len(codec_packed)
    /\ Cardinality({i \in 1..Len(codec_data) : codec_data[i] # codec_packed[i]}) = 1

\* C14: unpack raises on every datagram that differs from p.pack() in one
\* byte, whatever its position.
C14_AnyByteFlipDetected ==
    (codec_pc = "done" /\ OneByteReplaced) => codec_result = ValueError

\* C15: unpack raises on every input shorter than 20 bytes, on every input
\* whose length field is not the number of bytes after the header, and on
\* every input whose checksum field is not the sum of its other bytes.
C15_StrictDecoding ==
    (/\ codec_pc = "done"
     /\ \/ Len(codec_data) < 20
        \/ 256 * codec_data[15] + codec_data[16] # Len(codec_data) - 20
        \/ 256 * (256 * (256 * codec_data[17] + codec_data[18]) + codec_data[19])
               + codec_data[20]
             # SumBytes(SubSeq(codec_data, 1, 16))
                   + SumBytes(SubSeq(codec_data, 21, Len(codec_data))))
        => codec_result = ValueError

\* C16: once connect() has failed with TimeoutError, the initiator is closed
\* for good: connected is False in every later state and its receiver
\* thread is no longer running.
C16_TimeoutLeavesClosed ==
    connState = "timeout" => (~connected["c"] /\ ~running["c"])

\* C17: after close() has returned on the initiator, which connect() had
\* established, no retransmission timer of it is pending, whatever timer
\* thread had already expired when close() ran.
C17_NoTimerAfterClose ==
    (connState = "ok" /\ ~sock_open["c"]) => timer["c"] # "pending"

\* C18: an endpoint that has completed the handshake and whose receiver has
\* processed a FIN (its loop has ended and the application has not called
\* close()) is closed: connected is False, no retransmission timer is
\* pending and no timer thread is about to retransmit.
C18_FinReleasesEndpoint ==
    \A e \in E :
        (connState = "ok" /\ final_ack_rcvd /\ ~running[e] /\ sock_open[e])
            => (~connected[e] /\ timer[e] # "pending" /\ fired[e] = 0)

\* C19: an endpoint that has not completed the handshake - the initiator
\* before it processed the SYN-ACK, the responder before it received the
\* final ACK - has called on_message for nothing and expects sequence 0.
C19_NoDeliveryBeforeEstablished ==
    /\ (sock_open["c"] /\ ~connected["c"])
           => (delivered["c"] = << >> /\ expected_seq_num["c"] = 0)
    /\ ~final_ack_rcvd
           => (delivered["s"] = << >> /\ expected_seq_num["s"] = 0)

\* C20: a step in which the responder receives a packet without SYN whose
\* conn_id is not the one of its connection passes nothing to _sendto, calls
\* no callback and leaves expected_seq_num, send_base, the unacknowledged
\* packets, the timer, connected, running and conn_id as they are.
C20_UnknownConnIdDropped ==
    [][(/\ step'.actor = "s"
        /\ step'.rx # << >>
        /\ step'.rx[1].conn_id = StrayConnId
        /\ ~HasFlag(step'.rx[1].flags, SYN))
           => /\ step'.tx = << >>
              /\ step'.cb = << >>
              /\ UNCHANGED <<expected_seq_num, send_base, unacked_packets, timer,
                             peer_recv_win, connected, running, conn_id, remote_addr,
                             delivered>>]_vars

\* C23: a step in which an established endpoint runs a packet through the ACK
\* processing (a data packet or a packet without payload, past the SYN and
\* FIN branches) leaves peer_recv_win at that packet's recv_win (1 for an
\* advertised 0), also when the packet's ack is not above send_base.
C23_CreditAlwaysAdopted ==
    [][(/\ step'.op \in {"recv_data", "recv_ack"}
        /\ Established(step'.actor))
           => peer_recv_win'[step'.actor] =
                  (IF step'.rx[1].recv_win > 0 THEN step'.rx[1].recv_win ELSE 1)]_vars

\* C30: on every endpoint peer_recv_win is at least 1, so the effective
\* window min(window_size, peer_recv_win) is at least 1 and the admission
\* test of send_msg passes whenever nothing is in flight.
C30_CreditAtLeastOne ==
    \A e \in E :
        /\ peer_recv_win[e] >= 1
        /\ Min(WINDOW_SIZE, peer_recv_win[e]) >= 1
        /\ (send_base[e] = next_seq_num[e]
               => next_seq_num[e] < send_base[e] + Min(WINDOW_SIZE, peer_recv_win[e]))

\* C30 witness: the initiator, whose peer advertised a credit of 0 in the
\* SYN-ACK, holds peer_recv_win = 1 and has just admitted a message with
\* nothing else in flight.
C30_Witness ==
    /\ step.actor = "c" /\ step.op = "send_msg" /\ step.tx # << >>
    /\ peer_recv_win["c"] = 1
    /\ \E pkt \in chan["c"] : pkt.flags = SYN + ACK /\ pkt.recv_win = 0
    /\ send_base["c"] = 0
    /\ next_seq_num["c"] = 1

\* the packets of a table of unacknowledged packets, in ascending order of
\* their sequence numbers
RECURSIVE InAscendingOrder(_)
InAscendingOrder(table) ==
    IF DOMAIN table = {} THEN << >>
    ELSE LET lo == CHOOSE s \in DOMAIN table : \A r \in DOMAIN table : s <= r
         IN  <<table[lo]>> \o InAscendingOrder([r \in DOMAIN table \ {lo} |-> table[r]])

\* C22: a step that runs _timeout on an endpoint that has not been closed
\* passes to _sendto every packet of unacked_packets, each once and in ascending order of sequence number,
\* increases retransmissions by the number of these packets and bytes_resent
\* by the sum of their payload lengths, leaves send_base, next_seq_num and
\* unacked_packets as they are and leaves a timer pending.
C22_TimeoutResendsAllUnacked ==
    [][\A e \in E :
          (step'.op = "timeout" /\ step'.actor = e /\ sock_open[e])
              => /\ step'.tx = InAscendingOrder(unacked_packets[e])
                 /\ retransmissions'[e] =
                        retransmissions[e] + Cardinality(DOMAIN unacked_packets[e])
                 /\ bytes_resent'[e] =
                        bytes_resent[e] + PayloadBytes(InAscendingOrder(unacked_packets[e]))
                 /\ UNCHANGED <<send_base, next_seq_num, unacked_packets>>
                 /\ timer'[e] = "pending"]_vars

\* the bytes are shorter than a header, or their checksum field is not the
\* sum of the other bytes
Malformed(d) ==
    \/ Len(d) < 20
    \/ 256 * (256 * (256 * d[17] + d[18]) + d[19]) + d[20]
           # SumBytes(SubSeq(d, 1, 16)) + SumBytes(SubSeq(d, 21, Len(d)))

\* C24: a step in which a receiver gets a malformed datagram passes nothing to
\* _sendto, calls no callback, changes no connection, window or metrics
\* state and leaves the receiver running, with the same datagrams still to
\* be received.
C24_MalformedIsLoss ==
    [][(/\ step'.rx # << >>
        /\ "raw" \in DOMAIN step'.rx[1]
        /\ Malformed(step'.rx[1].raw))
           => /\ step'.tx = << >>
              /\ step'.cb = << >>
              /\ running'[step'.actor]
              /\ UNCHANGED <<chan, send_base, next_seq_num, unacked_packets, timer, fired,
                             peer_recv_win, expected_seq_num, recv_win, conn_id, connected,
                             running, remote_addr, sock_open, bytes_sent, messages_sent,
                             bytes_delivered, messages_delivered, rtt_samples,
                             retransmissions, bytes_resent, delivered>>]_vars

\* C24 witness: the responder, which has delivered a message and has a
\* packet of its own outstanding, has just received a datagram of full
\* length whose checksum does not match.
C24_Witness ==
    /\ step.op = "recv_malformed" /\ step.actor = "s"
    /\ Len(step.rx[1].raw) > 20
    /\ Malformed(step.rx[1].raw)
    /\ Len(delivered["s"]) = 1
    /\ send_base["s"] < next_seq_num["s"]
    /\ running["s"]

\* no thread is inside maybe_drop_packet
NoCallInProgress == \A t \in Callers : drop_pc[t] = "idle"

\* C29: on the bursty profile, whenever no call of maybe_drop_packet is in
\* progress, an active burst has between 1 and 8 calls left, the calls
\* evaluated as in-burst since it was armed with length L and the calls left
\* add up to L, and a burst that has ended was in-burst for exactly L calls;
\* on the clean profile no call returns True or changes the burst state.
C29_BurstLastsItsLength ==
    /\ (LOSS_PROFILE = "bursty" /\ NoCallInProgress)
           => /\ burst_active => (1 <= burst_remaining /\ burst_remaining <= 8)
              /\ burst_active => burst_calls + burst_remaining = burst_len
              /\ (~burst_active /\ burst_len > 0) => burst_calls = burst_len
    /\ LOSS_PROFILE = "clean"
           => /\ ~burst_active /\ burst_remaining = 0
              /\ ~drop_result

\* two threads of endpoint e are at statements that touch one field of the
\* sender state, one of them writing it
Race(e) ==
    \E t, u \in Threads :
        /\ t # u
        /\ Writes(at[e][t]) \cap (Reads(at[e][u]) \cup Writes(at[e][u])) # {}

\* C28: a thread that is at a statement which reads or writes send_base,
\* next_seq_num, unacked_packets, peer_recv_win or the timer handle holds
\* self.lock, and no two threads of an endpoint are at statements that touch
\* the same one of these fields, one of them writing it.
C28_SenderStateUnderLock ==
    \A e \in E :
        /\ \A t \in Threads :
               (Reads(at[e][t]) \cup Writes(at[e][t])) # {} => lock[e] = t
        /\ ~Race(e)

\* the datagram the server's receive loop handled in the step that led to
\* the state, and what it is
Handled(s) == s.actor = "srv" /\ s.op = "receive_loop"
IsSynOnly(pkt) == HasFlag(pkt.flags, SYN) /\ ~HasFlag(pkt.flags, ACK)
IsFin(pkt) == ~HasFlag(pkt.flags, SYN) /\ HasFlag(pkt.flags, FIN)
IsAckOnly(pkt) ==
    /\ ~HasFlag(pkt.flags, SYN) /\ ~HasFlag(pkt.flags, FIN)
    /\ HasFlag(pkt.flags, ACK) /\ pkt.payload = << >>
IsData(pkt) ==
    /\ ~HasFlag(pkt.flags, SYN) /\ ~HasFlag(pkt.flags, FIN)
    /\ pkt.payload # << >>

\* C21: a SYN (without ACK) for a conn_id that has an entry in clients is
\* answered with one SYN-ACK (seq 0, ack = the SYN's seq + 1) to the address
\* it came from, and leaves every table of the server as it was: the entry
\* (connected, expected_seq, send_seq, peer_recv_win, addr) and all others.
C21_DuplicateSynIsIdempotent ==
    [][(Handled(step') /\ IsSynOnly(step'.rx[1].pkt)
            /\ step'.rx[1].pkt.conn_id \in DOMAIN clients)
       => LET d == step'.rx[1]
          IN  /\ chatVars' = chatVars
              /\ step'.tx = <<[to |-> d.addr,
                               pkt |-> TransportPacket(SYN + ACK, d.pkt.conn_id, 0,
                                                       d.pkt.seq + 1, 10, << >>)]>>]_vars

\* The same for the responder of src/transport.py (_handle_handshake), in
\* the runs that log the socket calls: a SYN that carries the conn_id the
\* responder already holds is answered with the SYN-ACK and leaves the
\* responder's connection state as it was.
ResponderDuplicateSynIsIdempotent ==
    [][(/\ step'.actor = "s" /\ step'.op = "recv_syn"
        /\ IsSynOnly(step'.rx[1])
        /\ remote_addr["s"] # "None"
        /\ step'.rx[1].conn_id = conn_id["s"])
       => /\ UNCHANGED <<senderVars, recvVars, ctlVars, delivered>>
          /\ step'.tx = <<TransportPacket(SYN + ACK, conn_id["s"], 0,
                                          step'.rx[1].seq + 1, recv_win["s"], << >>)>>]_vars

\* a SYN from another address than the recorded one has reached a
\* connection that is established and has received data
C21_Witness ==
    /\ Handled(step)
    /\ IsSynOnly(step.rx[1].pkt)
    /\ step.rx[1].pkt.conn_id \in DOMAIN clients
    /\ LET client == clients[step.rx[1].pkt.conn_id]
       IN  /\ client.connected
           /\ client.expected_seq > 0
           /\ client.send_seq > 0
           /\ client.addr # step.rx[1].addr

\* C25: an ACK-only packet for an entry that is not connected sets
\* connected and adopts recv_win (0 as 1) whatever its ack; for a connected
\* entry it changes nothing; a data packet for an entry that is not
\* connected changes nothing and is not acknowledged; and an entry becomes
\* connected in no other step than that of an ACK-only packet with its
\* conn_id.
C25_AckOnlyFinalises ==
    [][/\ Handled(step') =>
            LET pkt == step'.rx[1].pkt
                c == pkt.conn_id
            IN  /\ (IsAckOnly(pkt) /\ c \in DOMAIN clients /\ ~clients[c].connected)
                    => /\ clients' = [clients EXCEPT
                              ![c].connected = TRUE,
                              ![c].peer_recv_win =
                                  IF pkt.recv_win = 0 THEN 1 ELSE pkt.recv_win]
                       /\ UNCHANGED <<addr_to_conn_id, client_names, username_to_conn_id,
                                      logged_in_users, rooms, room_history, priority_queue>>
                       /\ step'.tx = << >>
                /\ (IsAckOnly(pkt) /\ c \in DOMAIN clients /\ clients[c].connected)
                    => chatVars' = chatVars /\ step'.tx = << >>
                /\ (IsData(pkt) /\ c \in DOMAIN clients /\ ~clients[c].connected)
                    => chatVars' = chatVars /\ step'.tx = << >>
       /\ \A c \in (DOMAIN clients) \cap (DOMAIN clients') :
            (~clients[c].connected /\ clients'[c].connected)
                => /\ Handled(step')
                   /\ IsAckOnly(step'.rx[1].pkt)
                   /\ step'.rx[1].pkt.conn_id = c]_vars

\* an ACK-only packet with ack = 0 and recv_win = 0 has finalised a handshake
C25_Witness ==
    /\ Handled(step)
    /\ IsAckOnly(step.rx[1].pkt)
    /\ step.rx[1].pkt.ack = 0
    /\ step.rx[1].pkt.recv_win = 0
    /\ step.rx[1].pkt.conn_id \in DOMAIN clients
    /\ LET client == clients[step.rx[1].pkt.conn_id]
       IN  client.connected /\ client.peer_recv_win = 1 /\ client.expected_seq = 0

\* no table of the server refers to conn_id c
NoReference(c) ==
    /\ c \notin DOMAIN clients
    /\ c \notin DOMAIN client_names
    /\ c \notin logged_in_users
    /\ \A r \in DOMAIN rooms : c \notin rooms[r]
    /\ \A a \in DOMAIN addr_to_conn_id : addr_to_conn_id[a] # c
    /\ \A u \in DOMAIN username_to_conn_id : username_to_conn_id[u] # c

\* C26: in the state the handling of a FIN for conn_id c leaves, no table of
\* the server refers to c.
C26_FinRemovesEveryReference ==
    (Handled(step) /\ IsFin(step.rx[1].pkt)) => NoReference(step.rx[1].pkt.conn_id)

\* the server has sent its k-th message to the client at address "c"
ServerSent(k) ==
    \E c \in DOMAIN clients : clients[c].addr = "c" /\ clients[c].send_seq > k

\* the client's on_message has been called with the server's k-th message
ClientGot(k) ==
    \E i \in 1..Len(delivered["c"]) : delivered["c"][i].seq = k

\* C27: every message the chat server sends to the connected client with
\* ClientConnection.send_msg is eventually delivered to the client's
\* on_message callback, also when the substrate loses one of the server's
\* datagrams.
C27_ServerMessagesEventuallyDelivered ==
    \A k \in 0..(MaxSendSeq - 1) : ServerSent(k) ~> ClientGot(k)

\* ------------------------------------------------------------------------
\* An on_message callback that raises
\* ------------------------------------------------------------------------
\* mutant of callback_raised: the packet is counted before the callback runs
callback_raised_Counted(e, pkt) ==
    /\ expected_seq_num' = [expected_seq_num EXCEPT ![e] = @ + 1]
    /\ UNCHANGED <<recv_win, dlvMetrics>>

\* "self.on_message(pkt.payload)" raises: it is the first statement of the
\* in-order branch, none of the statements after it has run
callback_raised(e, pkt) == UNCHANGED <<expected_seq_num, recv_win, dlvMetrics>>

\* one turn of _recv_loop on the in-order data packet pkt in which the
\* application's callback raises: the exception leaves the branch, passes the
\* ACK and the ACK processing and is swallowed by "except Exception: continue"
RecvDataRaises(e, pkt) ==
    /\ PastControl(e, pkt)
    /\ ~IgnoredBeforeHandshake(e)
    /\ pkt.payload # << >>
    /\ InOrder(e, pkt)
    /\ step # NoLog
    /\ callback_raised(e, pkt)
    /\ except_continue(e)
    /\ step' = Did(e, "recv_data_raised", <<pkt>>, << >>, <<pkt.payload>>)
    /\ UNCHANGED <<final_ack_rcvd, LOSS_PROFILE, otherVars, resentMetrics, chanVars,
                   senderVars, conn_id, connected, remote_addr, sock_open,
                   sentMetrics, rtt_samples, appVars, delivered>>

recv_data_raises == \E e \in E : \E pkt \in chan[e] : RecvDataRaises(e, pkt)

CallbackNext ==
    \/ Next
    \/ recv_data_raises

CallbackSpec == InitIo /\ [][CallbackNext]_vars

\* C31: when on_message raises on the in-order packet, the receiver thread
\* stays alive, expected_seq_num and the delivery metrics keep their values,
\* no datagram (no ACK) is sent for the packet, and the packet is still the
\* expected one afterwards, so a retransmission of it is delivered to the
\* callback again.
C31_RaisingCallbackLeavesPacketUndelivered ==
    [][\A e \in E : \A pkt \in chan[e] :
         (step'.op = "recv_data_raised" /\ step'.actor = e /\ step'.rx = <<pkt>>) =>
             /\ running[e] /\ running'[e]
             /\ expected_seq_num' = expected_seq_num
             /\ bytes_delivered' = bytes_delivered
             /\ messages_delivered' = messages_delivered
             /\ step'.tx = << >>
             /\ chan' = chan
             /\ step'.cb = <<pkt.payload>>
             /\ (PastControl(e, pkt) /\ ~IgnoredBeforeHandshake(e) /\ InOrder(e, pkt))']_vars

\* the callback raised on the second packet of the initiator, after the first
\* was delivered
C31_Witness ==
    /\ step.op = "recv_data_raised"
    /\ step.actor = "s"
    /\ step.rx[1].seq = 1
    /\ messages_delivered["s"] = 1

\* C32: the address index agrees with the connection table: every connection
\* in clients is the one addr_to_conn_id names for its address, and every
\* conn_id addr_to_conn_id names is a key of clients.
C32_AddressIndexAgrees ==
    /\ \A c \in DOMAIN clients :
           /\ clients[c].addr \in DOMAIN addr_to_conn_id
           /\ addr_to_conn_id[clients[c].addr] = c
    /\ \A a \in DOMAIN addr_to_conn_id : addr_to_conn_id[a] \in DOMAIN clients

\* ------------------------------------------------------------------------
\* ClientConnection.send_msg, statement by statement, on two threads
\* ------------------------------------------------------------------------
\* handle_client_message (thread of receive_loop) and broadcast_to_room
\* (thread of process_message_queue) call client.send_msg outside "with
\* lock", and send_msg takes no lock of its own.  A thread can be preempted
\* between the construction of the packet (which reads self.send_seq), the
\* sendto call, and the read and the write of "self.send_seq += 1".

\* send_msg calls each of the two threads makes
MaxSendCalls == 2

\* what each thread sends: a reply to a command, a broadcast of a room
SendData(t) == IF t = "receive_loop" THEN <<"reply">> ELSE <<"broadcast">>

\* lines 43-49: pkt = TransportPacket(seq=self.send_seq, ...)
SmBuild(t, c) ==
    /\ sm_at[t] = "idle"
    /\ sm_calls[t] < MaxSendCalls
    /\ LET client == clients[c]
       IN  sm_pkt' = [sm_pkt EXCEPT ![t] =
               [to |-> client.addr,
                pkt |-> TransportPacket(0, client.conn_id, client.send_seq,
                                        client.expected_seq, client.recv_win,
                                        SendData(t))]]
    /\ sm_at' = [sm_at EXCEPT ![t] = "50"]
    /\ UNCHANGED <<connVars, codecVars, lossVars, lockVars, mutexVars, chatVars,
                   sm_loaded, sm_calls, sm_sent>>

\* line 50: server_sock.sendto(pkt.pack(), self.addr)
SmSendto(t) ==
    /\ sm_at[t] = "50"
    /\ sm_sent' = Append(sm_sent, sm_pkt[t])
    /\ sm_at' = [sm_at EXCEPT ![t] = "51"]
    /\ UNCHANGED <<connVars, codecVars, lossVars, lockVars, mutexVars, chatVars,
                   sm_pkt, sm_loaded, sm_calls>>

\* line 51, "self.send_seq += 1": the read
SmLoad(t) ==
    /\ sm_at[t] = "51"
    /\ sm_loaded' = [sm_loaded EXCEPT ![t] = clients[sm_pkt[t].pkt.conn_id].send_seq]
    /\ sm_at' = [sm_at EXCEPT ![t] = "51w"]
    /\ UNCHANGED <<connVars, codecVars, lossVars, lockVars, mutexVars, chatVars,
                   sm_pkt, sm_calls, sm_sent>>

\* line 51, "self.send_seq += 1": the write, and the return
SmStore(t) ==
    /\ sm_at[t] = "51w"
    /\ clients' = [clients EXCEPT ![sm_pkt[t].pkt.conn_id].send_seq = sm_loaded[t] + 1]
    /\ sm_at' = [sm_at EXCEPT ![t] = "idle"]
    /\ sm_calls' = [sm_calls EXCEPT ![t] = @ + 1]
    /\ UNCHANGED <<connVars, codecVars, lossVars, lockVars, mutexVars, addr_to_conn_id,
                   client_names, username_to_conn_id, logged_in_users, rooms,
                   room_history, priority_queue, sm_pkt, sm_loaded, sm_sent>>

SendSeqNext ==
    \E t \in ServerThreads :
        \/ \E c \in DOMAIN clients : SmBuild(t, c)
        \/ SmSendto(t)
        \/ SmLoad(t)
        \/ SmStore(t)

\* the server after the handshakes of two clients (handle_handshake on the
\* SYN and on the ACK of each)
InitSendSeq ==
    /\ LOSS_PROFILE = "clean"
    /\ InitEndpoints
    /\ ResendsNotCounted
    /\ step = NoLog
    /\ CodecIdle
    /\ InjectorIdle
    /\ LockIdle
    /\ MutexIdle
    /\ SendIdle
    /\ clients = [c \in 1..2 |->
                     [ClientConnection(c, IF c = 1 THEN "a1" ELSE "a2")
                          EXCEPT !.connected = TRUE, !.peer_recv_win = 10]]
    /\ addr_to_conn_id = [a \in ChatAddrs |-> IF a = "a1" THEN 1 ELSE 2]
    /\ client_names = << >>
    /\ username_to_conn_id = << >>
    /\ logged_in_users = {}
    /\ rooms = << >>
    /\ room_history = << >>
    /\ priority_queue = << >>

SendSeqSpec == InitSendSeq /\ [][SendSeqNext]_vars

\* the sequence numbers of the data packets sent to client c, in the order
\* of the sendto calls
RECURSIVE SeqsSentTo(_, _)
SeqsSentTo(sent, c) ==
    IF sent = << >> THEN << >>
    ELSE IF Head(sent).pkt.conn_id = c
         THEN <<Head(sent).pkt.seq>> \o SeqsSentTo(Tail(sent), c)
         ELSE SeqsSentTo(Tail(sent), c)

\* C33: the sequence numbers of the data packets the server sends to one
\* client are 0, 1, 2, ...: no number is used twice, and once no thread is
\* inside send_msg none was skipped.
C33_ServerSeqNumbersConsecutive ==
    \A c \in DOMAIN clients :
        LET seqs == SeqsSentTo(sm_sent, c)
        IN  /\ \A i, j \in 1..Len(seqs) : i # j => seqs[i] # seqs[j]
            /\ (\A t \in ServerThreads : sm_at[t] = "idle") =>
                   {seqs[i] : i \in 1..Len(seqs)} = 0..(Len(seqs) - 1)

\* ------------------------------------------------------------------------
\* self.lock and self.metrics_lock
\* ------------------------------------------------------------------------
\* The threads of one TransportConnection, by line of src/transport.py, in
\* the statements that take, hold or release one of its two locks, and in
\* the calls of _sendto and of on_message between them.  The values of the
\* fields are left out: whether send_msg admits, whether a loop has another
\* turn, what kind of packet the receiver got and whether a call raises is a
\* free choice.  A line that is a "with" statement is where the thread
\* waits for the lock.  The two endpoints share no lock, and a method of one
\* begins while no thread of the other is inside a method.
\*   send_msg      176 (with self.lock)  177  190 (with self.metrics_lock)
\*                 191  196 (_sendto)  197
\*   _timeout      211 (with self.lock)  212  215 (_sendto)
\*                 217 (with self.metrics_lock)  218  220
\*   _recv_loop    264 (on_message)  269 (with self.metrics_lock)  270
\*                 278 (with self.metrics_lock)  279  289 (_sendto)  292
\*                 294 (with self.lock)  295  301 (with self.metrics_lock)
\*                 302  304
\*   close         322 (_sendto)  325 (with self.metrics_lock)  326  329
\*   get_metrics   337 (with self.metrics_lock)  338

\* the "with self.lock:" lines and the lines inside their blocks
LockWaits == {"176", "211", "294"}
LockBody == {"177", "190", "191", "196", "197", "212", "215", "217", "218", "220",
             "295", "301", "302", "304"}

\* the "with self.metrics_lock:" lines and the lines inside their blocks
MetricsWaits == {"190", "217", "269", "278", "301", "325", "337"}
MetricsBody == {"191", "218", "270", "279", "302", "326", "338"}

\* no thread of the peer is inside a method
PeerIdle(e) == \A t \in Threads : at[Peer(e)][t] \in {"idle", "334"}

\* thread t of e begins a method, at its first line
MxCall(e, t, line) ==
    /\ PeerIdle(e)
    /\ Goto(e, t, "idle", line)

\* "with self.lock:" is entered, the block is left at its end
MxLock(e, t, from, to) ==
    /\ Acquire(e, t, from, to)
    /\ UNCHANGED <<nonMutexVars, metrics_lock, lk_timer, lk_open>>

MxUnlock(e, t, from, to) ==
    /\ Goto(e, t, from, to)
    /\ lock' = [lock EXCEPT ![e] = "None"]
    /\ UNCHANGED <<nonMutexVars, metrics_lock, lk_open>>

\* "with self.metrics_lock:" is entered, the block is left at its end
MxMetricsLock(e, t, from, to) ==
    /\ Goto(e, t, from, to)
    /\ metrics_lock[e] = "None"
    /\ metrics_lock' = [metrics_lock EXCEPT ![e] = t]
    /\ UNCHANGED <<nonMutexVars, lock, lk_timer, lk_open>>

MxMetricsUnlock(e, t, from, to) ==
    /\ Goto(e, t, from, to)
    /\ metrics_lock' = [metrics_lock EXCEPT ![e] = "None"]
    /\ UNCHANGED <<nonMutexVars, lock, lk_timer, lk_open>>

\* a step inside a method that takes and releases nothing
MxStep(e, t, from, to) ==
    /\ Goto(e, t, from, to)
    /\ UNCHANGED <<nonMutexVars, lock, metrics_lock, lk_timer, lk_open>>

\* mutant of Unwind: the locks are taken with acquire() and released with
\* release() at the end of the block, which an exception skips
Unwind_KeepsLocks(e, t) == UNCHANGED <<lock, metrics_lock>>

\* an exception leaves the "with" blocks around the statement that raised:
\* __exit__ releases what thread t holds
Unwind(e, t) ==
    /\ lock' = [lock EXCEPT ![e] = IF @ = t THEN "None" ELSE @]
    /\ metrics_lock' = [metrics_lock EXCEPT ![e] = IF @ = t THEN "None" ELSE @]

\* a call (_sendto, on_message) raises: the exception ends the method on an
\* application thread, ends the thread of the Timer, and is swallowed by
\* "except Exception: continue" on the receiver
MxRaises(e, t, from) ==
    /\ from \in {"196", "215", "264", "289", "322"}
    /\ Goto(e, t, from, "idle")
    /\ Unwind(e, t)
    /\ UNCHANGED <<nonMutexVars, lk_timer, lk_open>>

\* send_msg on an application thread
MxSendMsg(e, t) ==
    /\ t \in {"app", "app2"}
    /\ \/ MxCall(e, t, "176") /\ UNCHANGED <<nonMutexVars, lock, metrics_lock, lk_timer, lk_open>>
       \/ MxLock(e, t, "176", "177")
       \* line 179: the window is full and the block ends, or the packet is built
       \/ MxUnlock(e, t, "177", "idle") /\ UNCHANGED lk_timer
       \/ MxStep(e, t, "177", "190")
       \/ MxMetricsLock(e, t, "190", "191")
       \/ MxMetricsUnlock(e, t, "191", "196")
       \/ MxStep(e, t, "196", "197")
       \/ MxRaises(e, t, "196")
       \* lines 197-201, with or without _start_timer
       \/ /\ MxUnlock(e, t, "197", "idle")
          /\ \E started \in BOOLEAN : lk_timer' = [lk_timer EXCEPT ![e] = @ \/ started]

\* _timeout on the thread of an expired Timer
MxTimeout(e, t) ==
    /\ t = "timer"
    /\ \/ /\ lk_timer[e]
          /\ MxCall(e, t, "211")
          /\ lk_timer' = [lk_timer EXCEPT ![e] = FALSE]
          /\ UNCHANGED <<nonMutexVars, lock, metrics_lock, lk_open>>
       \/ MxLock(e, t, "211", "212")
       \* the for loop: another packet of the window, or the end of the loop
       \/ MxStep(e, t, "212", "215")
       \/ MxStep(e, t, "212", "220")
       \/ MxStep(e, t, "215", "217")
       \/ MxRaises(e, t, "215")
       \/ MxMetricsLock(e, t, "217", "218")
       \/ MxMetricsUnlock(e, t, "218", "212")
       \/ /\ MxUnlock(e, t, "220", "idle")
          /\ lk_timer' = [lk_timer EXCEPT ![e] = TRUE]

\* one turn of _recv_loop
MxRecv(e, t) ==
    /\ t = "recv"
    /\ \/ /\ lk_open[e]
          \* an in-order data packet, one ahead, a duplicate, a packet without payload
          /\ \E line \in {"264", "278", "289", "292"} : MxCall(e, t, line)
          /\ UNCHANGED <<nonMutexVars, lock, metrics_lock, lk_timer, lk_open>>
       \/ MxStep(e, t, "264", "269")
       \/ MxRaises(e, t, "264")
       \/ MxMetricsLock(e, t, "269", "270")
       \/ MxMetricsUnlock(e, t, "270", "289")
       \/ MxMetricsLock(e, t, "278", "279")
       \/ MxMetricsUnlock(e, t, "279", "289")
       \/ MxStep(e, t, "289", "292")
       \/ MxRaises(e, t, "289")
       \/ \E advances \in BOOLEAN :
              MxStep(e, t, "292", IF advances THEN "294" ELSE "idle")
       \/ MxLock(e, t, "294", "295")
       \* the for loop: a popped packet gives a sample, or the end of the loop
       \/ MxStep(e, t, "295", "301")
       \/ MxStep(e, t, "295", "304")
       \/ MxMetricsLock(e, t, "301", "302")
       \/ MxMetricsUnlock(e, t, "302", "295")
       \* lines 304-310: the timer is cancelled or started
       \/ /\ MxUnlock(e, t, "304", "idle")
          /\ \E started \in BOOLEAN : lk_timer' = [lk_timer EXCEPT ![e] = started]

\* close() on the application's first thread
MxClose(e, t) ==
    /\ t = "app"
    /\ \/ /\ lk_open[e]
          /\ lk_open' = [lk_open EXCEPT ![e] = FALSE]
          \* "if self.connected:" sends the FIN or not
          /\ \E line \in {"322", "325"} : MxCall(e, t, line)
          /\ UNCHANGED <<nonMutexVars, lock, metrics_lock, lk_timer>>
       \/ MxStep(e, t, "322", "325")
       \/ MxRaises(e, t, "322")
       \/ MxMetricsLock(e, t, "325", "326")
       \/ MxMetricsUnlock(e, t, "326", "329")
       \* lines 329-333: a pending timer is cancelled
       \/ /\ Goto(e, t, "329", "idle")
          /\ lk_timer' = [lk_timer EXCEPT ![e] = FALSE]
          /\ UNCHANGED <<nonMutexVars, lock, metrics_lock, lk_open>>

\* get_metrics() on an application thread
MxGetMetrics(e, t) ==
    /\ t \in {"app", "app2"}
    /\ \/ MxCall(e, t, "337") /\ UNCHANGED <<nonMutexVars, lock, metrics_lock, lk_timer, lk_open>>
       \/ MxMetricsLock(e, t, "337", "338")
       \/ MxMetricsUnlock(e, t, "338", "idle")

MutexNext ==
    \E e \in E : \E t \in Threads :
        \/ MxSendMsg(e, t)
        \/ MxTimeout(e, t)
        \/ MxRecv(e, t)
        \/ MxClose(e, t)
        \/ MxGetMetrics(e, t)

MutexSpec == InitLock /\ [][MutexNext]_vars

\* thread t of e waits at a "with" for a lock that a thread holds
Blocked(e, t) ==
    \/ at[e][t] \in LockWaits /\ lock[e] # "None"
    \/ at[e][t] \in MetricsWaits /\ metrics_lock[e] # "None"

\* the thread that holds the lock thread t of e is waiting for
Holder(e, t) == IF at[e][t] \in LockWaits THEN lock[e] ELSE metrics_lock[e]

\* C34: the threads of a connection never deadlock.  A thread that holds
\* the metrics lock is inside a metrics block, so it neither waits for nor
\* takes the sender lock (the metrics lock is taken alone or under the sender
\* lock, never the reverse); a thread that holds the sender lock is inside
\* a block of the sender lock; a thread outside the blocks holds nothing,
\* also after a call inside a block raised; and a thread that waits for a
\* lock waits for a thread that is not itself waiting, or whose own lock is
\* held by a thread that is not waiting.
C34_NoDeadlock ==
    \A e \in E : \A t \in Threads :
        /\ metrics_lock[e] = t => at[e][t] \in MetricsBody
        /\ lock[e] = t => at[e][t] \in LockBody
        /\ Blocked(e, t) =>
               /\ Holder(e, t) # t
               /\ \/ ~Blocked(e, Holder(e, t))
                  \/ /\ Holder(e, Holder(e, t)) \notin {t, Holder(e, t)}
                     /\ ~Blocked(e, Holder(e, Holder(e, t)))

\* the timer thread holds the sender lock and waits for the metrics lock,
\* which the receiver holds, while an application thread waits for the
\* sender lock
C34_Witness ==
    \E e \in E :
        /\ lock[e] = "timer" /\ at[e]["timer"] = "217"
        /\ metrics_lock[e] = "recv" /\ at[e]["recv"] = "270"
        /\ at[e]["app"] = "176"

====
